---- MODULE Spec2Model ----
(***************************************************************************)
(* Scout search engine: the analyzer, the three-layer index (lexicon,      *)
(* forward index, sharded inverted index with its routing table), the      *)
(* incremental writer add_document, the barrel cache and the BM25 query    *)
(* path, and the bulk build scripts.                                       *)
(*                                                                         *)
(* Text is a sequence of one-character strings.  A Python dict whose       *)
(* iteration order matters (term_freq, postings, scores, barrel_cache) is  *)
(* an ordered dict: a sequence of [k, v] records with distinct keys, in    *)
(* insertion order.  Floating point scores are fixed point integers with   *)
(* SCALE units per 1.0.                                                    *)
(***************************************************************************)
EXTENDS Integers, Sequences, FiniteSets, TLC

VARIABLES
    diskLexicon,      \* data/index/lexicon_complete.json
    diskForward,      \* data/index/forward_index_termid.json
    diskRouting,      \* data/index/barrels/term_to_barrel_map.json
    diskBarrels,      \* data/index/barrels/<name>.json, one per existing file
    cwdForward,       \* forward_index_termid.json of the working directory
    indexes,          \* add_document.py: the dict load_indexes() returns and add_document mutates
    adding,           \* add_document.py: the call of add_document that has not returned
    sePc,             \* search_engine: how far its module level code has run
    seLexicon,        \* search_engine.lexicon_entries (read at import)
    seForward,        \* search_engine.forward_index (read at import)
    seRouting,        \* search_engine.term_to_barrel (read at import)
    profile_length_by_id, \* search_engine.profile_length_by_id (read at import)
    seHashSeed,       \* search_engine: the PYTHONHASHSEED of the process
    barrel_cache,     \* search_engine.barrel_cache
    searching,        \* search_engine: the call of search that has not returned
    lastOp,           \* the last step: add_document or search returning (the input and
                      \* what it returned), or another step
    oplog,            \* routing assignments and file writes of the current or last
                      \* add_document call, in order
    failures,         \* add_document.py: how many calls an open() for writing has failed
    corpus,           \* bulk build: complete_player_profiles.json
    buildPc           \* bulk build: which script runs next

vars == << diskLexicon, diskForward, diskRouting, diskBarrels, cwdForward, indexes, adding,
           sePc, seLexicon, seForward, seRouting, profile_length_by_id, seHashSeed,
           barrel_cache, searching, lastOp, oplog, failures, corpus, buildPc >>

---------------------------------------------------------------------------
(* Characters *)

LOWER == << "a","b","c","d","e","f","g","h","i","j","k","l","m",
            "n","o","p","q","r","s","t","u","v","w","x","y","z" >>
UPPER == << "A","B","C","D","E","F","G","H","I","J","K","L","M",
            "N","O","P","Q","R","S","T","U","V","W","X","Y","Z" >>
DIGITS == << "0","1","2","3","4","5","6","7","8","9" >>

\* Text is over the characters U+0000 to U+00FF.  The letters of that range
\* that str.lower() changes besides A-Z, and what it changes them to
UPPER_LATIN1 == << "À","Á","Â","Ã","Ä","Å","Æ","Ç","È","É","Ê","Ë","Ì",
                  "Í","Î","Ï","Ð","Ñ","Ò","Ó","Ô","Õ","Ö","Ø","Ù","Ú",
                  "Û","Ü","Ý","Þ" >>
LOWER_LATIN1 == << "à","á","â","ã","ä","å","æ","ç","è","é","ê","ë","ì",
                  "í","î","ï","ð","ñ","ò","ó","ô","õ","ö","ø","ù","ú",
                  "û","ü","ý","þ" >>

\* The characters of the range that str.strip() removes: U+0009 to U+000D,
\* U+001C to U+001F, U+0020, U+0085, U+00A0
WHITESPACE == << "\t","\n","","\f","\r","","","",""," ",""," " >>

Range(s) == { s[i] : i \in DOMAIN s }

LowerSet == Range(LOWER)
WhitespaceSet == Range(WHITESPACE)
UpperSet == Range(UPPER) \cup Range(UPPER_LATIN1)
\* The characters that \w matches: the letters, the digits, the underscore and
\* U+00AA, U+00B2, U+00B3, U+00B5, U+00B9, U+00BA, U+00BC, U+00BD, U+00BE,
\* U+00DF, U+00FF
WordSet  == Range(LOWER) \cup Range(UPPER) \cup Range(DIGITS) \cup {"_"}
            \cup Range(UPPER_LATIN1) \cup Range(LOWER_LATIN1)
            \cup { "ª","²","³","µ","¹","º","¼","½","¾","ß","ÿ" }

\* [a-z]
IsAZ(c) == c \in LowerSet

\* \w of a str pattern: letters, digits and the underscore, accented letters
\* and the other alphanumerics included
IsWordChar(c) == c \in WordSet

\* str.lower() on one character
LowerChar(c) ==
    IF c \notin UpperSet THEN c
    ELSE IF \E i \in DOMAIN UPPER : UPPER[i] = c
    THEN LOWER[CHOOSE i \in DOMAIN UPPER : UPPER[i] = c]
    ELSE LOWER_LATIN1[CHOOSE i \in DOMAIN UPPER_LATIN1 : UPPER_LATIN1[i] = c]

\* str.lower()
Lower(text) == [i \in 1..Len(text) |-> LowerChar(text[i])]

\* str.strip(): leading and trailing whitespace removed
RECURSIVE Strip(_)
Strip(text) ==
    IF text = << >> THEN << >>
    ELSE IF Head(text) \in WhitespaceSet THEN Strip(Tail(text))
    ELSE IF text[Len(text)] \in WhitespaceSet
    THEN Strip(SubSeq(text, 1, Len(text) - 1))
    ELSE text

\* str.endswith
EndsWith(word, suffix) ==
    /\ Len(word) >= Len(suffix)
    /\ SubSeq(word, Len(word) - Len(suffix) + 1, Len(word)) = suffix

\* str.startswith
StartsWith(text, prefix) ==
    /\ Len(text) >= Len(prefix)
    /\ SubSeq(text, 1, Len(prefix)) = prefix

\* needle in haystack (substring test)
Contains(haystack, needle) ==
    \E i \in 0..(Len(haystack) - Len(needle)) :
        SubSeq(haystack, i + 1, i + Len(needle)) = needle

\* " ".join(tokens)
RECURSIVE JoinSpace(_)
JoinSpace(tokens) ==
    IF tokens = << >> THEN << >>
    ELSE IF Len(tokens) = 1 THEN tokens[1]
    ELSE tokens[1] \o << " " >> \o JoinSpace(Tail(tokens))

\* f"{a} {b}"
FmtPair(a, b) == a \o << " " >> \o b

\* str(n) for n >= 0: the decimal digits
RECURSIVE Str(_)
Str(n) ==
    IF n < 10 THEN << DIGITS[n + 1] >>
    ELSE Str(n \div 10) \o << DIGITS[(n % 10) + 1] >>

\* int(s) for a digit string
RECURSIVE ParseInt(_)
ParseInt(s) ==
    IF s = << >> THEN 0
    ELSE 10 * ParseInt(SubSeq(s, 1, Len(s) - 1))
         + ((CHOOSE i \in DOMAIN DIGITS : DIGITS[i] = s[Len(s)]) - 1)

\* f"{n:03d}": zero padded to at least three digits
Fmt03d(n) ==
    LET d == Str(n)
    IN  IF Len(d) >= 3 THEN d
        ELSE [i \in 1..(3 - Len(d)) |-> "0"] \o d

---------------------------------------------------------------------------
(* Text normalization *)

\* add_document.COMPREHENSIVE_STOP_WORDS = search_engine.COMPREHENSIVE_STOP_WORDS
COMPREHENSIVE_STOP_WORDS ==
    { <<"t","h","e">>, <<"a","n","d">>, <<"i","n">>, <<"f","o","r">>, <<"w","i","t","h">>,
      <<"o","n">>, <<"a","t">>, <<"f","r","o","m">>, <<"b","y">>, <<"a","s">>, <<"i","s">>,
      <<"w","a","s">>, <<"a","r","e">>, <<"w","e","r","e">>, <<"b","e">>, <<"b","e","e","n">>,
      <<"h","a","v","e">>, <<"h","a","s">>, <<"h","a","d">>, <<"t","o">>, <<"o","f">>, <<"a">>,
      <<"a","n">>, <<"t","h","a","t">>, <<"t","h","i","s">>, <<"t","h","e","s","e">>,
      <<"t","h","o","s","e">>, <<"i","t">>, <<"i","t","s">>, <<"o","r">>, <<"b","u","t">>,
      <<"n","o","t">>, <<"w","h","a","t">>, <<"w","h","i","c","h">>, <<"w","h","o">>,
      <<"w","h","e","n">>, <<"w","h","e","r","e">>, <<"w","h","y">>, <<"h","o","w">>,
      <<"a","l","l">>, <<"a","n","y">>, <<"b","o","t","h">>, <<"e","a","c","h">>, <<"f","e","w">>,
      <<"m","o","r","e">>, <<"m","o","s","t">>, <<"o","t","h","e","r">>, <<"s","o","m","e">>,
      <<"s","u","c","h">>, <<"n","o">>, <<"n","o","r">>, <<"o","n","l","y">>, <<"o","w","n">>,
      <<"s","a","m","e">>, <<"s","o">>, <<"t","h","a","n">>, <<"t","o","o">>, <<"v","e","r","y">>,
      <<"c","a","n">>, <<"w","i","l","l">>, <<"j","u","s","t">>, <<"s","h","o","u","l","d">>,
      <<"n","o","w">>, <<"p","l","a","y","e","r">>, <<"c","l","u","b">>, <<"t","e","a","m">>,
      <<"f","o","o","t","b","a","l","l">>, <<"s","o","c","c","e","r">>, <<"m","a","t","c","h">>,
      <<"g","a","m","e">>, <<"s","e","a","s","o","n">>, <<"l","e","a","g","u","e">>,
      <<"c","u","p">>, <<"c","h","a","m","p","i","o","n","s">>, <<"p","r","e","m","i","e","r">>,
      <<"l","a">>, <<"b","u","n","d","e","s","l","i","g","a">>, <<"s","e","r","i","e">>,
      <<"c","u","r","r","e","n","t">>, <<"m","a","i","n">>, <<"p","o","s","i","t","i","o","n">>,
      <<"n","a","t","i","o","n","a","l","i","t","y">>, <<"b","i","r","t","h">>,
      <<"p","l","a","c","e">>, <<"c","o","m","p","r","e","h","e","n","s","i","v","e">>,
      <<"i","n","t","e","r","n","a","t","i","o","n","a","l">>,
      <<"p","e","r","f","o","r","m","a","n","c","e">>,
      <<"t","r","a","n","s","f","e","r","m","a","r","k","t">>, <<"i","n","j","u","r","y">>,
      <<"s","u","m","m","a","r","y">>, <<"m","a","r","k","e","t">>,
      <<"h","i","s","t","o","r","y">>, <<"d","a","t","a","b","a","s","e">>,
      <<"v","a","l","u","e">>, <<"d","a","t","a">>, <<"t","e","a","m","m","a","t">>,
      <<"s","o","u","r","c">>, <<"c","a","r","e","e","r">>, <<"a","s","s","i","s","t">>,
      <<"a","p","p">>, <<"m","i","n","u","t">>, <<"a","v","a","i","l","a","b","l","e">>,
      <<"n","a","t","i","o","n","a","l">>, <<"s","i","g","n","i","f","i","c","a","n","t">>,
      <<"t","e","a","m","m","a","t","e">>, <<"t","r","a","n","s","f","e","r">>,
      <<"g","o","a","l">> }
\* build_complete_lexicons.COMPREHENSIVE_STOP_WORDS (the shorter set)
BUILD_STOP_WORDS ==
    { <<"t","h","e">>, <<"a","n","d">>, <<"i","n">>, <<"f","o","r">>, <<"w","i","t","h">>,
      <<"o","n">>, <<"a","t">>, <<"f","r","o","m">>, <<"b","y">>, <<"a","s">>, <<"i","s">>,
      <<"w","a","s">>, <<"a","r","e">>, <<"w","e","r","e">>, <<"b","e">>, <<"b","e","e","n">>,
      <<"h","a","v","e">>, <<"h","a","s">>, <<"h","a","d">>, <<"t","o">>, <<"o","f">>, <<"a">>,
      <<"a","n">>, <<"t","h","a","t">>, <<"t","h","i","s">>, <<"t","h","e","s","e">>,
      <<"t","h","o","s","e">>, <<"i","t">>, <<"i","t","s">>, <<"o","r">>, <<"b","u","t">>,
      <<"n","o","t">>, <<"w","h","a","t">>, <<"w","h","i","c","h">>, <<"w","h","o">>,
      <<"w","h","e","n">>, <<"w","h","e","r","e">>, <<"w","h","y">>, <<"h","o","w">>,
      <<"a","l","l">>, <<"a","n","y">>, <<"b","o","t","h">>, <<"e","a","c","h">>, <<"f","e","w">>,
      <<"m","o","r","e">>, <<"m","o","s","t">>, <<"o","t","h","e","r">>, <<"s","o","m","e">>,
      <<"s","u","c","h">>, <<"n","o">>, <<"n","o","r">>, <<"o","n","l","y">>, <<"o","w","n">>,
      <<"s","a","m","e">>, <<"s","o">>, <<"t","h","a","n">>, <<"t","o","o">>, <<"v","e","r","y">>,
      <<"c","a","n">>, <<"w","i","l","l">>, <<"j","u","s","t">>, <<"s","h","o","u","l","d">>,
      <<"n","o","w">>, <<"p","l","a","y","e","r">>, <<"c","l","u","b">>, <<"t","e","a","m">>,
      <<"f","o","o","t","b","a","l","l">>, <<"s","o","c","c","e","r">>, <<"m","a","t","c","h">>,
      <<"g","a","m","e">>, <<"s","e","a","s","o","n">>, <<"l","e","a","g","u","e">>,
      <<"c","u","p">>, <<"c","h","a","m","p","i","o","n","s">>, <<"p","r","e","m","i","e","r">>,
      <<"l","a">>, <<"b","u","n","d","e","s","l","i","g","a">>, <<"s","e","r","i","e">>,
      <<"c","u","r","r","e","n","t">>, <<"m","a","i","n">>, <<"p","o","s","i","t","i","o","n">>,
      <<"n","a","t","i","o","n","a","l","i","t","y">>, <<"b","i","r","t","h">>,
      <<"p","l","a","c","e">> }

\* add_document.simple_stemmer, search_engine.simple_stemmer,
\* build_complete_lexicons.simple_stemmer: the same four rules
simple_stemmer(word) ==
    IF EndsWith(word, <<"i","n","g">>) /\ Len(word) > 5
    THEN SubSeq(word, 1, Len(word) - 3)
    ELSE IF EndsWith(word, <<"e","d">>) /\ Len(word) > 4
    THEN SubSeq(word, 1, Len(word) - 2)
    ELSE IF EndsWith(word, <<"e","s">>) /\ Len(word) > 4
    THEN SubSeq(word, 1, Len(word) - 2)
    ELSE IF EndsWith(word, <<"s">>) /\ Len(word) > 3
    THEN SubSeq(word, 1, Len(word) - 1)
    ELSE word

\* The end of the maximal run of characters satisfying the class, from i
RECURSIVE RunEndAZ(_, _)
RunEndAZ(text, i) ==
    IF i < Len(text) /\ IsAZ(text[i + 1]) THEN RunEndAZ(text, i + 1) ELSE i

\* re.findall(r"\b[a-z]+\b", text): a run of [a-z] matches only when it is
\* bounded on both sides by a non-word character or an end of the text; a
\* run that touches a digit, an underscore, an upper case letter or an
\* accented letter has no word boundary at that side and no part of it
\* matches.
RECURSIVE FindWordsFrom(_, _)
FindWordsFrom(text, i) ==
    IF i > Len(text) THEN << >>
    ELSE IF IsAZ(text[i]) /\ (i = 1 \/ ~IsWordChar(text[i - 1]))
    THEN LET j == RunEndAZ(text, i)
         IN  IF j = Len(text) \/ ~IsWordChar(text[j + 1])
             THEN << SubSeq(text, i, j) >> \o FindWordsFrom(text, j + 1)
             ELSE FindWordsFrom(text, j + 1)
    ELSE FindWordsFrom(text, i + 1)

FindWords(text) == FindWordsFrom(text, 1)

\* re.findall(r"[a-z]+", text): every maximal run of [a-z]
RECURSIVE FindRunsFrom(_, _)
FindRunsFrom(text, i) ==
    IF i > Len(text) THEN << >>
    ELSE IF IsAZ(text[i])
    THEN LET j == RunEndAZ(text, i)
         IN  << SubSeq(text, i, j) >> \o FindRunsFrom(text, j + 1)
    ELSE FindRunsFrom(text, i + 1)

FindRuns(text) == FindRunsFrom(text, 1)

RECURSIVE StemSurvivors(_, _)
StemSurvivors(words, stop) ==
    IF words = << >> THEN << >>
    ELSE LET w == Head(words)
         IN  IF w \in stop \/ Len(w) <= 2
             THEN StemSurvivors(Tail(words), stop)
             ELSE << simple_stemmer(w) >> \o StemSurvivors(Tail(words), stop)

\* add_document.normalize_and_tokenize and search_engine.normalize_and_tokenize
normalize_and_tokenize(text) ==
    StemSurvivors(FindWords(Lower(text)), COMPREHENSIVE_STOP_WORDS)

\* search_engine.normalize_name_tokens (value is a string here)
normalize_name_tokens(value) ==
    LET tokens == FindRuns(Lower(value))
    IN  [i \in 1..Len(tokens) |-> simple_stemmer(tokens[i])]

\* search_engine.build_name_metadata
build_name_metadata(name) ==
    LET tokens == normalize_name_tokens(name)
    IN  [ tokens     |-> tokens,
          token_set  |-> Range(tokens),
          normalized |-> JoinSpace(tokens),
          raw_lower  |-> Lower(name) ]

---------------------------------------------------------------------------
(* Python containers *)

\* An ordered dict is a sequence of [k, v] with distinct keys (insertion order)
ODHas(od, key) == \E i \in DOMAIN od : od[i].k = key

ODGet(od, key) == od[CHOOSE i \in DOMAIN od : od[i].k = key].v

\* d[key] = value: in place for a key already there, appended otherwise
ODSet(od, key, value) ==
    IF ODHas(od, key)
    THEN [i \in DOMAIN od |-> IF od[i].k = key THEN [k |-> key, v |-> value] ELSE od[i]]
    ELSE Append(od, [k |-> key, v |-> value])

\* d[key] = value on an unordered dict (a function)
DictSet(d, key, value) ==
    [x \in (DOMAIN d) \cup {key} |-> IF x = key THEN value ELSE d[x]]

EmptyDict == [x \in {} |-> 0]

RECURSIVE SumSeq(_)
SumSeq(s) == IF s = << >> THEN 0 ELSE Head(s) + SumSeq(Tail(s))

RECURSIVE SumOver(_, _)
SumOver(f, S) ==
    IF S = {} THEN 0
    ELSE LET x == CHOOSE y \in S : TRUE IN f[x] + SumOver(f, S \ {x})

SetMax(S) == CHOOSE x \in S : \A y \in S : y <= x

---------------------------------------------------------------------------
(* add_document.py *)

\* indexes['token_to_entry']: {entry["token"]: entry for entry in lexicon};
\* the dict holds the entry objects of the list, so it is read off the list
\* (the last entry of a token is the one the dict keeps).
InTokenToEntry(lexicon, token) == \E i \in DOMAIN lexicon : lexicon[i].token = token

TokenEntryIndex(lexicon, token) ==
    SetMax({ i \in DOMAIN lexicon : lexicon[i].token = token })

token_to_entry(lexicon, token) == lexicon[TokenEntryIndex(lexicon, token)]

\* indexes['doc_by_id'] keys: {doc["player_id"] for doc in forward_index}
DocIds(forward_index) == { forward_index[i].player_id : i \in DOMAIN forward_index }

\* load_indexes: max(entry["term_id"] for entry in lexicon)
MaxTermId(lexicon) == SetMax({ lexicon[i].term_id : i \in DOMAIN lexicon })

\* json.load of the forward index file: dict keys come back as strings
JsonTerms(terms) ==
    IF terms.kind = "dict" /\ terms.keytype = "int"
    THEN [ kind    |-> "dict",
           keytype |-> "str",
           map     |-> [ key \in { Str(t) : t \in DOMAIN terms.map }
                         |-> terms.map[ParseInt(key)] ] ]
    ELSE terms

JsonForward(forward_index) ==
    [ i \in DOMAIN forward_index |->
        [ forward_index[i] EXCEPT !.terms = JsonTerms(forward_index[i].terms) ] ]

\* load_indexes()
load_indexes(lexiconFile, forwardFile, routingFile) ==
    [ lexicon        |-> lexiconFile,
      max_term_id    |-> MaxTermId(lexiconFile),
      forward_index  |-> forwardFile,
      term_to_barrel |-> routingFile ]

\* player_data.get(key), player_data.get(key, "")
HasKey(player_data, key) == key \in DOMAIN player_data

\* not player_id: None (key absent) and 0 are both falsy
PlayerIdFalsy(player_data) ==
    IF HasKey(player_data, "player_id") THEN player_data.player_id = 0 ELSE TRUE

PlayerName(player_data) ==
    IF HasKey(player_data, "player_name") THEN player_data.player_name ELSE << >>

DetailedContent(player_data) ==
    IF HasKey(player_data, "detailed_content") THEN player_data.detailed_content ELSE << >>

\* tokens of the document: normalize_and_tokenize(f"{player_name} {detailed_content}")
DocTokens(player_data) ==
    normalize_and_tokenize(FmtPair(PlayerName(player_data), DetailedContent(player_data)))

\* term_freq = defaultdict(int); term_freq[token] += 1 for every token
RECURSIVE TermFreq(_, _)
TermFreq(tokens, acc) ==
    IF tokens = << >> THEN acc
    ELSE LET t == Head(tokens)
         IN  TermFreq(Tail(tokens),
                      ODSet(acc, t, IF ODHas(acc, t) THEN ODGet(acc, t) + 1 ELSE 1))

MissingMsg   == "Missing required fields: player_id, player_name"
\* f"Player ID {player_id} already exists"
DuplicateMsg(player_id) == "Player ID " \o ToString(player_id) \o " already exists"
EmptyMsg     == "No valid tokens found in document"

\* The early returns of add_document, in the order the code tests them
AddError(player_data, idx) ==
    IF PlayerIdFalsy(player_data) \/ PlayerName(player_data) = << >>
    THEN MissingMsg
    ELSE IF player_data.player_id \in DocIds(idx.forward_index)
    THEN DuplicateMsg(player_data.player_id)
    ELSE IF DocTokens(player_data) = << >>
    THEN EmptyMsg
    ELSE "ok"

\* Faulty variant: the first new term_id repeats the current maximum
FirstNewTermId_Reused(max_term_id) == max_term_id

\* next_term_id = indexes['max_term_id'] + 1
FirstNewTermId(max_term_id) == max_term_id + 1

\* Faulty variant: a new entry starts at df 0
NewEntry_DfZero(token, next_term_id) == [ token |-> token, df |-> 0, term_id |-> next_term_id ]

\* new_entry of a token that is not in the lexicon
NewEntry(token, next_term_id) == [ token |-> token, df |-> 1, term_id |-> next_term_id ]

\* Faulty variant: df counts occurrences, not documents
IncrementedDf_PerOccurrence(df, tf) == df + tf

\* indexes['token_to_entry'][token]["df"] += 1 (tf is the loop variable, unused)
IncrementedDf(df, tf) == df + 1

\* Step 2: the lexicon loop over term_freq.items()
RECURSIVE UpdateLexicon(_, _, _, _)
UpdateLexicon(items, lexicon, next_term_id, new_tokens) ==
    IF items = << >>
    THEN [ lexicon |-> lexicon, next_term_id |-> next_term_id, new_tokens |-> new_tokens ]
    ELSE LET token == Head(items).k
         IN  IF ~InTokenToEntry(lexicon, token)
             THEN UpdateLexicon(Tail(items),
                      Append(lexicon, NewEntry(token, next_term_id)),
                      next_term_id + 1,
                      Append(new_tokens, token))
             ELSE LET i == TokenEntryIndex(lexicon, token)
                  IN  UpdateLexicon(Tail(items),
                          [ lexicon EXCEPT ![i].df = IncrementedDf(@, Head(items).v) ],
                          next_term_id,
                          new_tokens)

\* Step 3: term_ids_in_doc and forward_entry
RECURSIVE TermIdsInDoc(_, _, _)
TermIdsInDoc(items, lexicon, acc) ==
    IF items = << >> THEN acc
    ELSE LET token == Head(items).k
             tf    == Head(items).v
         IN  TermIdsInDoc(Tail(items), lexicon,
                 DictSet(acc, token_to_entry(lexicon, token).term_id,
                         [ token |-> token, tf |-> tf ]))

ForwardEntry(player_data, tokens, term_freq, lexicon) ==
    [ player_id    |-> player_data.player_id,
      player_name  |-> PlayerName(player_data),
      total_terms  |-> Len(tokens),
      unique_terms |-> Len(term_freq),
      terms        |-> [ kind    |-> "dict",
                         keytype |-> "int",
                         map     |-> TermIdsInDoc(term_freq, lexicon, EmptyDict) ] ]

\* Shard names: f"barrel_{barrel_idx:03d}" and int(bn.split('_')[1])
BarrelPrefix == << "b","a","r","r","e","l","_" >>

BarrelName(barrel_idx) == BarrelPrefix \o Fmt03d(barrel_idx)

\* bn.split('_')[1]: the text between the first underscore and the next one
RECURSIVE UpToUnderscore(_)
UpToUnderscore(s) ==
    IF s = << >> \/ Head(s) = "_" THEN << >>
    ELSE << Head(s) >> \o UpToUnderscore(Tail(s))

SplitField1(bn) ==
    LET first == CHOOSE i \in DOMAIN bn : bn[i] = "_" /\ \A j \in 1..(i - 1) : bn[j] # "_"
    IN  UpToUnderscore(SubSeq(bn, first + 1, Len(bn)))

BarrelIndex(bn) == ParseInt(SplitField1(bn))

\* Faulty variant: the shard count without the + 1
NumBarrels_NoPlusOne(term_to_barrel) ==
    SetMax({ BarrelIndex(term_to_barrel[t]) : t \in DOMAIN term_to_barrel })

\* max(int(bn.split('_')[1]) for bn in set(term_to_barrel.values())) + 1
NumBarrels(term_to_barrel) ==
    SetMax({ BarrelIndex(term_to_barrel[t]) : t \in DOMAIN term_to_barrel }) + 1

\* Faulty variant: a term_id without a routing entry opens a new shard
AssignBarrel_NewShard(term_id, term_to_barrel) ==
    BarrelName(NumBarrels(term_to_barrel))

\* The barrel a term_id without a routing entry is assigned to
AssignBarrel(term_id, term_to_barrel) ==
    BarrelName(term_id % NumBarrels(term_to_barrel))

\* The scaffold for a barrel file that does not exist
EmptyBarrel(barrel_name) ==
    [ metadata       |-> [ term_count |-> 0, posting_count |-> 0, barrel_name |-> barrel_name ],
      inverted_index |-> EmptyDict ]

\* Faulty variant: the df of a term the barrel already holds is not refreshed
RefreshedDf_Stale(old_df, entry) == old_df

\* barrel_data['inverted_index'][term_id_str]['df'] = entry['df']
RefreshedDf(old_df, entry) == entry.df

\* Faulty variant: the term's posting list is replaced by this document's posting
UpdateBarrel_Overwrites(barrel_data, term_id_str, token, entry, player_id, tf) ==
    LET inv3 == DictSet(barrel_data.inverted_index, term_id_str,
                        [ token |-> token, df |-> entry.df,
                          postings |-> << [ k |-> Str(player_id), v |-> [ tf |-> tf ] ] >> ])
        counts == [ t \in DOMAIN inv3 |-> Len(inv3[t].postings) ]
    IN  [ metadata       |-> [ barrel_data.metadata EXCEPT
                                  !.term_count    = Cardinality(DOMAIN inv3),
                                  !.posting_count = SumOver(counts, DOMAIN inv3) ],
          inverted_index |-> inv3 ]

\* Lines 222-243: the term's posting for this document, its df, the metadata
UpdateBarrel(barrel_data, term_id_str, token, entry, player_id, tf) ==
    LET inv0 == barrel_data.inverted_index
        inv1 == IF term_id_str \notin DOMAIN inv0
                THEN DictSet(inv0, term_id_str,
                             [ token |-> token, df |-> entry.df, postings |-> << >> ])
                ELSE inv0
        inv2 == [ inv1 EXCEPT ![term_id_str].postings =
                                  ODSet(@, Str(player_id), [ tf |-> tf ]) ]
        inv3 == [ inv2 EXCEPT ![term_id_str].df = RefreshedDf(@, entry) ]
        counts == [ t \in DOMAIN inv3 |-> Len(inv3[t].postings) ]
    IN  [ metadata       |-> [ barrel_data.metadata EXCEPT
                                  !.term_count    = Cardinality(DOMAIN inv3),
                                  !.posting_count = SumOver(counts, DOMAIN inv3) ],
          inverted_index |-> inv3 ]

\* Step 4: the barrel loop over term_freq.items(); st carries term_to_barrel,
\* the barrel files, barrels_updated and the log of what was done, in order
RECURSIVE UpdateBarrels(_, _, _, _)
UpdateBarrels(items, lexicon, player_id, st) ==
    IF items = << >> THEN st
    ELSE LET token       == Head(items).k
             tf          == Head(items).v
             entry       == token_to_entry(lexicon, token)
             term_id     == entry.term_id
             term_id_str == Str(term_id)
             routed      == term_id_str \in DOMAIN st.term_to_barrel
             barrel_name == IF routed THEN st.term_to_barrel[term_id_str]
                            ELSE AssignBarrel(term_id, st.term_to_barrel)
             routing1    == IF routed THEN st.term_to_barrel
                            ELSE DictSet(st.term_to_barrel, term_id_str, barrel_name)
             log1        == IF routed THEN st.log
                            ELSE Append(st.log, [ op |-> "route", term_id |-> term_id,
                                                  barrel |-> barrel_name ])
             barrel_data == IF barrel_name \in DOMAIN st.barrels
                            THEN st.barrels[barrel_name]
                            ELSE EmptyBarrel(barrel_name)
             updated     == UpdateBarrel(barrel_data, term_id_str, token, entry, player_id, tf)
         IN  UpdateBarrels(Tail(items), lexicon, player_id,
                 [ term_to_barrel  |-> routing1,
                   barrels         |-> DictSet(st.barrels, barrel_name, updated),
                   barrels_updated |-> st.barrels_updated \cup { barrel_name },
                   log             |-> Append(log1, [ op |-> "write", file |-> barrel_name ]) ])

LexiconFile == << "l","e","x","i","c","o","n" >>
ForwardFile == << "f","o","r","w","a","r","d" >>
RoutingFile == << "m","a","p" >>

\* Faulty variant: next_term_id has been taken from the counter before the return
Rejected_CounterAdvanced(err, idx, files) ==
    [ result  |-> [ kind |-> "error", error |-> err ],
      indexes |-> [ idx EXCEPT !.max_term_id = @ + 1 ],
      files   |-> files,
      log     |-> << >> ]

\* An early return {"error": ...}: nothing has been touched yet
Rejected(err, idx, files) ==
    [ result  |-> [ kind |-> "error", error |-> err ],
      indexes |-> idx,
      files   |-> files,
      log     |-> << >> ]

\* add_document(player_data, indexes): what it returns, the indexes dict and
\* the files after the call, and the log of the call
add_document(player_data, idx, files) ==
    LET err == AddError(player_data, idx)
    IN  IF err # "ok"
        THEN Rejected(err, idx, files)
        ELSE
        LET tokens    == DocTokens(player_data)
            term_freq == TermFreq(tokens, << >>)
            s2        == UpdateLexicon(term_freq, idx.lexicon,
                                       FirstNewTermId(idx.max_term_id), << >>)
            fwd       == Append(idx.forward_index,
                                ForwardEntry(player_data, tokens, term_freq, s2.lexicon))
            s4        == UpdateBarrels(term_freq, s2.lexicon, player_data.player_id,
                             [ term_to_barrel  |-> idx.term_to_barrel,
                               barrels         |-> files.barrels,
                               barrels_updated |-> {},
                               log             |-> << >> ])
        IN  [ result  |-> [ kind             |-> "success",
                            player_id        |-> player_data.player_id,
                            player_name      |-> PlayerName(player_data),
                            total_terms      |-> Len(tokens),
                            unique_terms     |-> Len(term_freq),
                            new_tokens_added |-> Len(s2.new_tokens),
                            barrels_updated  |-> Cardinality(s4.barrels_updated) ],
              indexes |-> [ lexicon        |-> s2.lexicon,
                            max_term_id    |-> s2.next_term_id - 1,
                            forward_index  |-> fwd,
                            term_to_barrel |-> s4.term_to_barrel ],
              files   |-> [ lexicon |-> s2.lexicon,
                            forward |-> JsonForward(fwd),
                            routing |-> s4.term_to_barrel,
                            barrels |-> s4.barrels ],
              log     |-> s4.log \o << [ op |-> "write", file |-> LexiconFile ],
                                       [ op |-> "write", file |-> ForwardFile ],
                                       [ op |-> "write", file |-> RoutingFile ] >> ]

\* add_document(player_data, indexes) at the moment `written` of its file
\* writes are complete (one write per term of the barrel loop, then the
\* lexicon, the forward index and the routing table): steps 2 and 3 have
\* updated the indexes dict, the barrel loop has run `written` times
add_document_at(player_data, idx, files, written) ==
    LET tokens    == DocTokens(player_data)
        term_freq == TermFreq(tokens, << >>)
        n         == Len(term_freq)
        s2        == UpdateLexicon(term_freq, idx.lexicon,
                                   FirstNewTermId(idx.max_term_id), << >>)
        fwd       == Append(idx.forward_index,
                            ForwardEntry(player_data, tokens, term_freq, s2.lexicon))
        s4        == UpdateBarrels(SubSeq(term_freq, 1, IF written < n THEN written ELSE n),
                         s2.lexicon, player_data.player_id,
                         [ term_to_barrel  |-> idx.term_to_barrel,
                           barrels         |-> files.barrels,
                           barrels_updated |-> {},
                           log             |-> << >> ])
        saves     == << [ op |-> "write", file |-> LexiconFile ],
                        [ op |-> "write", file |-> ForwardFile ],
                        [ op |-> "write", file |-> RoutingFile ] >>
    IN  [ indexes |-> [ lexicon        |-> s2.lexicon,
                        max_term_id    |-> s2.next_term_id - 1,
                        forward_index  |-> fwd,
                        term_to_barrel |-> s4.term_to_barrel ],
          files   |-> [ lexicon |-> IF written > n THEN s2.lexicon ELSE files.lexicon,
                        forward |-> IF written > n + 1 THEN JsonForward(fwd) ELSE files.forward,
                        routing |-> IF written > n + 2 THEN s4.term_to_barrel
                                    ELSE files.routing,
                        barrels |-> s4.barrels ],
          log     |-> s4.log \o SubSeq(saves, 1, IF written > n THEN written - n ELSE 0) ]

\* add_document(player_data, indexes) when its open() for writing number
\* `written` + 1 raises (a barrel file, the lexicon, the forward index or the
\* routing table): steps 2 and 3 have updated the indexes dict, the first
\* `written` files are on disk and, when the file is the barrel of a term,
\* the loop has already routed that term (line 204) and logged it
add_document_fails(player_data, idx, files, written) ==
    LET term_freq == TermFreq(DocTokens(player_data), << >>)
        at        == add_document_at(player_data, idx, files, written)
        pass      == UpdateBarrels(<< term_freq[written + 1] >>, at.indexes.lexicon,
                         player_data.player_id,
                         [ term_to_barrel  |-> at.indexes.term_to_barrel,
                           barrels         |-> at.files.barrels,
                           barrels_updated |-> {},
                           log             |-> at.log ])
        in_loop   == written < Len(term_freq)
    IN  [ result  |-> [ kind |-> "raise", exc |-> "OSError" ],
          indexes |-> IF in_loop
                      THEN [ at.indexes EXCEPT !.term_to_barrel = pass.term_to_barrel ]
                      ELSE at.indexes,
          files   |-> at.files,
          log     |-> IF in_loop THEN SubSeq(pass.log, 1, Len(pass.log) - 1) ELSE at.log ]

\* The files add_document(player_data, indexes) opens for writing, in order
WrittenFiles(player_data, idx, files) ==
    LET writes == SelectSeq(add_document(player_data, idx, files).log,
                            LAMBDA event : event.op = "write")
    IN  [ i \in DOMAIN writes |-> writes[i].file ]
---------------------------------------------------------------------------
(* The built-in set of CPython 3.11 (Objects/setobject.c) holding str keys: *)
(* an open-addressing table whose slot order is the iteration order.  The   *)
(* hash of a str depends on PYTHONHASHSEED, which is fixed for the life of  *)
(* a process.                                                               *)

LINEAR_PROBES == 9
PERTURB_SHIFT == 5
PySet_MINSIZE == 8

\* An unused slot of the table
NoKey == << >>

\* hash('barrel_000'), hash('barrel_001'), ... under PYTHONHASHSEED 0, 1, ...:
\* << bits 0-29, bits 30-59, bits 60-63 >> of the 64-bit value
BARREL_HASH ==
    << << << 805202937, 85827816, 6 >>, << 691948633, 391820264, 15 >>, << 889982908, 418374983, 10 >>,
       << 565696239, 110023999, 6 >>, << 338780558, 901257778, 9 >>, << 990898580, 638942722, 6 >>,
       << 301784164, 466656025, 9 >>, << 632426761, 523636264, 10 >>, << 75187784, 631356643, 6 >>,
       << 1020633996, 68500937, 14 >>, << 660885423, 219103937, 9 >>, << 978061296, 627909774, 5 >>,
       << 20690520, 280432611, 11 >>, << 308595179, 726974216, 8 >> >>,
    << << 307591190, 894082122, 15 >>, << 49129271, 560016998, 5 >>, << 301899767, 463977815, 13 >>,
       << 291537040, 161197494, 1 >>, << 5826592, 448272188, 13 >>, << 274843887, 288403180, 10 >>,
       << 1068296379, 364061848, 1 >>, << 765351588, 263768877, 12 >>, << 362205057, 138890518, 3 >>,
       << 316128432, 986995333, 1 >>, << 63830708, 197540825, 15 >>, << 870629926, 744424732, 11 >>,
       << 443822172, 911135020, 13 >>, << 315175353, 358614584, 3 >> >>,
    << << 339381321, 158011616, 15 >>, << 451922291, 714478661, 11 >>, << 482157963, 77232536, 8 >>,
       << 376020759, 989486553, 11 >>, << 692404857, 918233385, 8 >>, << 793426147, 857782218, 10 >>,
       << 507161604, 711529254, 7 >>, << 188901030, 129445519, 6 >>, << 24846540, 582847625, 3 >>,
       << 573794384, 548550648, 0 >>, << 1065079178, 565925111, 4 >>, << 607532045, 382073649, 4 >>,
       << 1016933579, 520549481, 7 >>, << 353154162, 178471242, 3 >> >>,
    << << 328109439, 565494952, 9 >>, << 784093267, 143873173, 12 >>, << 221816540, 99772461, 13 >>,
       << 657098063, 676692519, 5 >>, << 855888877, 231082919, 5 >>, << 572301994, 804512635, 13 >>,
       << 631183026, 932008226, 12 >>, << 33463717, 646068402, 13 >>, << 869599448, 643047985, 12 >>,
       << 815261621, 1070502746, 6 >>, << 149974491, 34060971, 4 >>, << 462947366, 576805425, 2 >>,
       << 508295219, 733208199, 14 >>, << 945314873, 470076488, 1 >> >>,
    << << 997912980, 485827631, 12 >>, << 600347613, 241325000, 7 >>, << 1024043650, 365412292, 3 >>,
       << 251898178, 923362784, 2 >>, << 372198543, 365399972, 0 >>, << 542276697, 241500595, 6 >>,
       << 1062796302, 842728922, 6 >>, << 333183675, 263351271, 1 >>, << 884475987, 949979330, 10 >>,
       << 227108297, 293676525, 10 >>, << 515887895, 808988506, 2 >>, << 1058196137, 932084581, 15 >>,
       << 889162183, 428469190, 1 >>, << 480845646, 383464075, 0 >> >>,
    << << 399055327, 309165583, 10 >>, << 526788579, 983522231, 10 >>, << 284325735, 577695321, 1 >>,
       << 809910674, 481175825, 2 >>, << 51681023, 906817093, 4 >>, << 665937025, 649669685, 10 >>,
       << 645927615, 777559164, 10 >>, << 427257513, 338333208, 8 >>, << 881567764, 731357641, 2 >>,
       << 964212163, 836732758, 10 >>, << 487767829, 411569365, 12 >>, << 242349635, 548802530, 5 >>,
       << 217249740, 323145729, 1 >>, << 455555868, 86274870, 5 >> >>,
    << << 216337323, 455426274, 5 >>, << 1069073747, 583419003, 15 >>, << 860296746, 61486008, 0 >>,
       << 293685541, 922937727, 11 >>, << 517430439, 799850297, 7 >>, << 1024024150, 29529045, 3 >>,
       << 80627106, 272733004, 12 >>, << 341449259, 259627131, 10 >>, << 930776464, 486344425, 5 >>,
       << 176011589, 3079470, 15 >>, << 511607252, 986056410, 5 >>, << 1027887338, 971132838, 2 >>,
       << 359565843, 191680417, 6 >>, << 254683146, 32270132, 4 >> >> >>

\* hash('kaa'), hash('kba'), ... under PYTHONHASHSEED 0, 1, ...
TOKEN_HASH ==
    << << << 58326829, 57762903, 4 >>, << 362378692, 62978440, 1 >>, << 557115156, 722410971, 11 >>,
       << 776895105, 554280551, 1 >>, << 230218685, 1001024550, 9 >>, << 807214072, 68103484, 15 >>,
       << 238060819, 418130984, 11 >>, << 112233609, 132758597, 3 >>, << 388282302, 395176107, 0 >>,
       << 858849884, 809300950, 0 >>, << 228624828, 1067576962, 3 >>, << 2088003, 601468779, 12 >>,
       << 972627019, 742422196, 11 >>, << 340537973, 764890372, 6 >> >>,
    << << 412839989, 328162571, 1 >>, << 496126706, 687547936, 7 >>, << 209900860, 151740490, 3 >>,
       << 554883898, 509535285, 9 >>, << 525408655, 375105039, 0 >>, << 852095835, 668672915, 9 >>,
       << 926310472, 870032250, 2 >>, << 648462136, 277082106, 4 >>, << 166052399, 763888277, 5 >>,
       << 229404048, 742759820, 3 >>, << 343215747, 105812885, 14 >>, << 652720279, 698696991, 13 >>,
       << 1073233033, 251226723, 9 >>, << 197829102, 997243076, 3 >> >>,
    << << 547380280, 546692993, 15 >>, << 978375502, 433001937, 1 >>, << 427360563, 266549205, 5 >>,
       << 511712020, 1040711733, 7 >>, << 1001266361, 997991130, 2 >>, << 50419707, 475303164, 11 >>,
       << 213155046, 999582242, 8 >>, << 905955078, 498524309, 1 >>, << 673271109, 1060788185, 12 >>,
       << 806348738, 1058169951, 12 >>, << 1038869369, 1072320288, 5 >>, << 552054018, 703598684, 2 >>,
       << 234940795, 267020189, 14 >>, << 37399974, 532712076, 5 >> >>,
    << << 436919213, 58022018, 8 >>, << 1043666910, 530937914, 2 >>, << 724801960, 1013911091, 6 >>,
       << 660428092, 927877074, 14 >>, << 649586362, 247908196, 12 >>, << 524461856, 303634212, 6 >>,
       << 639486328, 199847191, 9 >>, << 87195434, 589079224, 15 >>, << 127482669, 975434117, 14 >>,
       << 441853275, 323602837, 2 >>, << 286846349, 530718597, 15 >>, << 1035265223, 1011841738, 7 >>,
       << 52969267, 869639463, 8 >>, << 768775184, 1072295161, 5 >> >>,
    << << 372119346, 168387790, 14 >>, << 227609563, 958965574, 0 >>, << 559819729, 283997388, 13 >>,
       << 1049448505, 341433259, 7 >>, << 756504096, 204094033, 8 >>, << 18708350, 675507410, 13 >>,
       << 258337565, 609223533, 5 >>, << 846594256, 384182509, 15 >>, << 731350428, 573588091, 0 >>,
       << 59387337, 444916857, 14 >>, << 406054072, 804297616, 12 >>, << 543865727, 1044954054, 15 >>,
       << 829245322, 788050636, 5 >>, << 645040096, 66151803, 13 >> >>,
    << << 219052313, 368377451, 8 >>, << 444556544, 979518371, 7 >>, << 173484386, 917647073, 15 >>,
       << 973394300, 970527735, 3 >>, << 741829456, 17099348, 8 >>, << 936500464, 823148106, 14 >>,
       << 898577912, 202833013, 14 >>, << 1015543277, 345405664, 6 >>, << 867120221, 736537700, 14 >>,
       << 218954221, 291891538, 2 >>, << 488124429, 890397713, 13 >>, << 106399889, 363041632, 10 >>,
       << 367921488, 395203378, 0 >>, << 353306845, 451117337, 14 >> >>,
    << << 432302028, 980530939, 6 >>, << 321061421, 160808328, 13 >>, << 708475289, 755088029, 4 >>,
       << 65938266, 126901689, 12 >>, << 396192615, 228117728, 12 >>, << 429603625, 20769649, 4 >>,
       << 954212278, 928101463, 8 >>, << 800486499, 532688721, 9 >>, << 142153887, 583521390, 11 >>,
       << 101045162, 1005402246, 5 >>, << 496321178, 660065161, 6 >>, << 635621706, 593079777, 14 >>,
       << 311183553, 479269249, 6 >>, << 330794761, 402732126, 7 >> >> >>

\* hash(key) of the process whose PYTHONHASHSEED is seed, for the barrel
\* names and the three-letter tokens "k?a"
StrHash(seed, key) ==
    IF Len(key) > Len(BarrelPrefix) /\ SubSeq(key, 1, Len(BarrelPrefix)) = BarrelPrefix
    THEN BARREL_HASH[seed + 1][BarrelIndex(key) + 1]
    ELSE TOKEN_HASH[seed + 1][CHOOSE i \in DOMAIN LOWER : LOWER[i] = key[2]]

\* perturb >>= PERTURB_SHIFT on the three parts of the 64-bit value (30, 30
\* and 4 bits)
ShiftHash(perturb) ==
    LET shift == 2 ^ PERTURB_SHIFT
        carry == 2 ^ (30 - PERTURB_SHIFT)
    IN  << (perturb[1] \div shift) + (perturb[2] % shift) * carry,
           (perturb[2] \div shift) + (perturb[3] % shift) * carry,
           perturb[3] \div shift >>

\* set_insert_clean / the probing of set_add_entry for a key the table does
\* not hold: the first unused slot among slot i and the LINEAR_PROBES after
\* it, else the probe moves to (i * 5 + 1 + perturb) & mask.  Slot j of the
\* table is table[j + 1].
RECURSIVE FreeSlot(_, _, _)
FreeSlot(table, i, perturb) ==
    LET mask   == Len(table) - 1
        probes == IF i + LINEAR_PROBES <= mask THEN LINEAR_PROBES ELSE 0
        unused == { j \in i..(i + probes) : table[j + 1] = NoKey }
    IN  IF unused # {} THEN CHOOSE j \in unused : \A j2 \in unused : j <= j2
        ELSE LET shifted == ShiftHash(perturb)
             IN  FreeSlot(table, (i * 5 + 1 + shifted[1]) % (mask + 1), shifted)

SetInsertClean(table, key, seed) ==
    LET hash == StrHash(seed, key)
    IN  [ table EXCEPT ![FreeSlot(table, hash[1] % Len(table), hash) + 1] = key ]

\* The smallest power of two above minused, from PySet_MINSIZE
RECURSIVE NewSize(_, _)
NewSize(newsize, minused) ==
    IF newsize > minused THEN newsize ELSE NewSize(newsize * 2, minused)

RECURSIVE ReinsertAll(_, _, _)
ReinsertAll(table, keys, seed) ==
    IF keys = << >> THEN table
    ELSE ReinsertAll(SetInsertClean(table, Head(keys), seed), Tail(keys), seed)

\* for key in set: the used slots in slot order
RECURSIVE SetIteration(_)
SetIteration(table) ==
    IF table = << >> THEN << >>
    ELSE (IF Head(table) = NoKey THEN << >> ELSE << Head(table) >>) \o SetIteration(Tail(table))

\* set_table_resize: a new table into which the keys go in the slot order of
\* the old one
SetTableResize(table, minused, seed) ==
    ReinsertAll([ j \in 1..NewSize(PySet_MINSIZE, minused) |-> NoKey ],
                SetIteration(table), seed)

\* set.add(key): no change when the key is held; else the key goes into a
\* free slot and the table is resized to hold used * 4 once
\* fill * 5 >= mask * 3 (sets of at most 50000 keys, never deleted from)
SetAdd(table, key, seed) ==
    IF \E j \in DOMAIN table : table[j] = key THEN table
    ELSE LET added == SetInsertClean(table, key, seed)
             fill  == Len(SetIteration(added))
         IN  IF fill * 5 < (Len(table) - 1) * 3 THEN added
             ELSE SetTableResize(added, fill * 4, seed)

\* s = set(); s.add(key) for each key of keys, in order: the table
RECURSIVE SetOf(_, _, _)
SetOf(table, keys, seed) ==
    IF keys = << >> THEN table
    ELSE SetOf(SetAdd(table, Head(keys), seed), Tail(keys), seed)

EmptySet == [ j \in 1..PySet_MINSIZE |-> NoKey ]

\* list(s) after s = set() and s.add(key) for each key of keys, in a process
\* whose PYTHONHASHSEED is seed
SetOrder(keys, seed) == SetIteration(SetOf(EmptySet, keys, seed))

---------------------------------------------------------------------------
(* search_engine.py *)

\* Fixed point: SCALE units per 1.0
SCALE == 10000

\* round(math.log(k) * SCALE) for k = 1..64
LN == << 0, 6931, 10986, 13863, 16094, 17918, 19459, 20794, 21972, 23026, 23979, 24849,
         25649, 26391, 27081, 27726, 28332, 28904, 29444, 29957, 30445, 30910, 31355, 31781,
         32189, 32581, 32958, 33322, 33673, 34012, 34340, 34657, 34965, 35264, 35553, 35835,
         36109, 36376, 36636, 36889, 37136, 37377, 37612, 37842, 38067, 38286, 38501, 38712,
         38918, 39120, 39318, 39512, 39703, 39890, 40073, 40254, 40431, 40604, 40775, 40943,
         41109, 41271, 41431, 41589 >>

NAME_TOKEN_WEIGHT      == 7500      \* 0.75
NAME_PREFIX_BONUS      == 12500     \* 1.25
EXACT_NAME_BONUS       == 30000     \* 3.0
RAW_SUBSTRING_BONUS    == 2500      \* 0.25
MARKET_VALUE_WEIGHT    == 120000    \* 12.0
PROFILE_LENGTH_WEIGHT  == 40000     \* 4.0
NON_NAME_MATCH_PENALTY == 15000     \* 1.5

MAX_CACHED_BARRELS == 10

\* player_market_value: the latest value per player of the market value CSV
player_market_value == [ p \in {2} |-> 7 ]

\* load_profile_lengths: len(detailed_content) per player_id of the profiles
\* file, for the entries whose detailed_content is not empty; a later entry
\* of a player_id replaces an earlier one
load_profile_lengths(profiles) ==
    LET held == { i \in DOMAIN profiles : profiles[i].detailed_content # << >> }
    IN  [ p \in { profiles[i].player_id : i \in held } |->
            Len(profiles[SetMax({ i \in held : profiles[i].player_id = p })].detailed_content) ]

\* max(values, default=0); math.log1p(max) if max > 0 else 1.0
LogMax(d) ==
    LET m == IF DOMAIN d = {} THEN 0 ELSE SetMax({ d[p] : p \in DOMAIN d })
    IN  IF m > 0 THEN LN[1 + m] ELSE SCALE

\* token_to_id = {entry["token"]: entry["term_id"] for entry in lexicon_entries}
HasTokenId(lexicon_entries, tok) == InTokenToEntry(lexicon_entries, tok)

token_to_id(lexicon_entries, tok) == token_to_entry(lexicon_entries, tok).term_id

\* term_document_frequency.get(tid, 0)
term_document_frequency(lexicon_entries, tid) ==
    LET S == { i \in DOMAIN lexicon_entries : lexicon_entries[i].term_id = tid }
    IN  IF S = {} THEN 0 ELSE lexicon_entries[SetMax(S)].df

\* doc_by_id = {doc["player_id"]: doc for doc in forward_index}
doc_by_id(forward_index, doc_id) ==
    forward_index[SetMax({ i \in DOMAIN forward_index : forward_index[i].player_id = doc_id })]

\* N = len(doc_by_id)
DocCount(forward_index) == Cardinality(DocIds(forward_index))

\* sum(d["total_terms"] for d in forward_index), the numerator of avg_doc_len
TotalTermsSum(forward_index) ==
    SumSeq([ i \in DOMAIN forward_index |-> forward_index[i].total_terms ])

\* Faulty variant: a miss inserts without evicting
CacheAfterLoad_NoEviction(cache, barrel_name, barrels) ==
    IF ODHas(cache, barrel_name) THEN cache
    ELSE IF barrel_name \in DOMAIN barrels
    THEN Append(cache, [ k |-> barrel_name, v |-> barrels[barrel_name] ])
    ELSE cache

\* Faulty variant: a miss on a full cache evicts the entry inserted last
CacheAfterLoad_EvictsNewest(cache, barrel_name, barrels) ==
    IF ODHas(cache, barrel_name) THEN cache
    ELSE IF barrel_name \in DOMAIN barrels
    THEN LET kept == IF Len(cache) >= MAX_CACHED_BARRELS
                     THEN SubSeq(cache, 1, Len(cache) - 1) ELSE cache
         IN  Append(kept, [ k |-> barrel_name, v |-> barrels[barrel_name] ])
    ELSE cache

\* load_barrel: the cache after the call (a hit changes nothing; a miss on an
\* existing file evicts the first entry of a full cache and appends)
CacheAfterLoad(cache, barrel_name, barrels) ==
    IF ODHas(cache, barrel_name) THEN cache
    ELSE IF barrel_name \in DOMAIN barrels
    THEN LET kept == IF Len(cache) >= MAX_CACHED_BARRELS THEN Tail(cache) ELSE cache
         IN  Append(kept, [ k |-> barrel_name, v |-> barrels[barrel_name] ])
    ELSE cache

\* load_barrel: what it returns ("none" stands for None)
BarrelLoaded(cache, barrel_name, barrels) ==
    ODHas(cache, barrel_name) \/ barrel_name \in DOMAIN barrels

load_barrel(cache, barrel_name, barrels) ==
    IF ODHas(cache, barrel_name) THEN ODGet(cache, barrel_name)
    ELSE barrels[barrel_name]

\* tokens_to_term_ids
RECURSIVE TokensToTermIds(_, _, _)
TokensToTermIds(tokens, lexicon_entries, unique_term_ids) ==
    IF tokens = << >> THEN unique_term_ids
    ELSE LET tok == Head(tokens)
         IN  IF ~HasTokenId(lexicon_entries, tok)
                \/ token_to_id(lexicon_entries, tok) \in Range(unique_term_ids)
             THEN TokensToTermIds(Tail(tokens), lexicon_entries, unique_term_ids)
             ELSE TokensToTermIds(Tail(tokens), lexicon_entries,
                      Append(unique_term_ids, token_to_id(lexicon_entries, tok)))

tokens_to_term_ids(tokens, lexicon_entries) ==
    TokensToTermIds(tokens, lexicon_entries, << >>)

\* bm25_score with k1 = 1.2, b = 0.75 and avg_doc_len = total / N:
\*   idf = log((N - df + 0.5) / (df + 0.5) + 1) = log((2N + 2) / (2df + 1))
\*   tf (k1 + 1) / (tf + k1 (1 - b + b doc_len / avg))
\*       = 22 tf total / (10 tf total + 3 total + 9 doc_len N)
bm25_score(tf, df, doc_len, N, total) ==
    LET idf == LN[2 * N + 2] - LN[2 * df + 1]
    IN  (idf * (22 * tf * total)) \div (10 * tf * total + 3 * total + 9 * doc_len * N)

\* required_barrels: the set of barrels the routing table names for the query
RequiredBarrels(term_ids, term_to_barrel) ==
    { term_to_barrel[Str(term_ids[i])] :
        i \in { j \in DOMAIN term_ids : Str(term_ids[j]) \in DOMAIN term_to_barrel } }

\* The calls required_barrels.add(barrel_name) of the loop over term_ids, in
\* order: one per term_id that has a routing entry
RECURSIVE RequiredAdds(_, _)
RequiredAdds(term_ids, term_to_barrel) ==
    IF term_ids = << >> THEN << >>
    ELSE (IF Str(Head(term_ids)) \in DOMAIN term_to_barrel
          THEN << term_to_barrel[Str(Head(term_ids))] >> ELSE << >>)
         \o RequiredAdds(Tail(term_ids), term_to_barrel)

\* The loop "for barrel_name in required_barrels: load_barrel(barrel_name)";
\* order is the iteration order of the set.  Returns the cache and
\* loaded_barrels.
RECURSIVE LoadRequired(_, _, _, _)
LoadRequired(order, cache, loaded, barrels) ==
    IF order = << >> THEN [ cache |-> cache, loaded |-> loaded ]
    ELSE LET bn == Head(order)
         IN  IF BarrelLoaded(cache, bn, barrels)
             THEN LoadRequired(Tail(order), CacheAfterLoad(cache, bn, barrels),
                               DictSet(loaded, bn, load_barrel(cache, bn, barrels)), barrels)
             ELSE LoadRequired(Tail(order), cache, loaded, barrels)

\* The inner loop over one term's postings
RECURSIVE ScorePostings(_, _, _, _)
ScorePostings(postings, df, forward_index, acc) ==
    IF postings = << >> \/ ~acc.ok THEN acc
    ELSE LET doc_id == ParseInt(Head(postings).k)
             tf     == Head(postings).v.tf
         IN  IF doc_id \notin DocIds(forward_index)
             THEN [ ok |-> FALSE, exc |-> "KeyError", scores |-> acc.scores ]
             ELSE IF TotalTermsSum(forward_index) = 0
             THEN [ ok |-> FALSE, exc |-> "ZeroDivisionError", scores |-> acc.scores ]
             ELSE LET s   == bm25_score(tf, df, doc_by_id(forward_index, doc_id).total_terms,
                                        DocCount(forward_index), TotalTermsSum(forward_index))
                      old == IF ODHas(acc.scores, doc_id) THEN ODGet(acc.scores, doc_id) ELSE 0
                  IN  ScorePostings(Tail(postings), df, forward_index,
                          [ acc EXCEPT !.scores = ODSet(@, doc_id, old + s) ])

\* The BM25 loop over term_ids
RECURSIVE Accumulate(_, _, _, _, _, _)
Accumulate(term_ids, lexicon_entries, forward_index, term_to_barrel, loaded, acc) ==
    IF term_ids = << >> \/ ~acc.ok THEN acc
    ELSE LET tid  == Head(term_ids)
             df   == term_document_frequency(lexicon_entries, tid)
             rest == Tail(term_ids)
         IN  IF df = 0
             THEN Accumulate(rest, lexicon_entries, forward_index, term_to_barrel, loaded, acc)
             ELSE IF Str(tid) \notin DOMAIN term_to_barrel
                     \/ term_to_barrel[Str(tid)] \notin DOMAIN loaded
             THEN Accumulate(rest, lexicon_entries, forward_index, term_to_barrel, loaded, acc)
             ELSE LET inv == loaded[term_to_barrel[Str(tid)]].inverted_index
                  IN  IF Str(tid) \notin DOMAIN inv
                      THEN Accumulate(rest, lexicon_entries, forward_index, term_to_barrel,
                                      loaded, acc)
                      ELSE Accumulate(rest, lexicon_entries, forward_index, term_to_barrel,
                               loaded,
                               ScorePostings(inv[Str(tid)].postings, df, forward_index, acc))

\* The name conditions of the boost pass for one document
MatchCount(query_tokens, meta) ==
    Cardinality({ i \in DOMAIN query_tokens : query_tokens[i] \in meta.token_set })

ExactName(query_name, meta)  == query_name # << >> /\ meta.normalized = query_name

PrefixName(query_name, meta) ==
    /\ query_name # << >>
    /\ meta.normalized # query_name
    /\ StartsWith(meta.normalized, query_name)

RawSubstring(raw_query_lower, meta) ==
    raw_query_lower # << >> /\ Contains(meta.raw_lower, raw_query_lower)

HasNameMatch(query, query_tokens, meta) ==
    \/ MatchCount(query_tokens, meta) > 0
    \/ ExactName(JoinSpace(normalize_name_tokens(query)), meta)
    \/ PrefixName(JoinSpace(normalize_name_tokens(query)), meta)
    \/ RawSubstring(Strip(Lower(query)), meta)

\* Faulty variant: the valuation and length boosts are given without a name match
Boost_Ungated(query, query_tokens, doc_id, forward_index) ==
    LET meta       == build_name_metadata(doc_by_id(forward_index, doc_id).player_name)
        query_name == JoinSpace(normalize_name_tokens(query))
        raw        == Strip(Lower(query))
        matched    == HasNameMatch(query, query_tokens, meta)
        value      == IF doc_id \in DOMAIN player_market_value
                      THEN player_market_value[doc_id] ELSE 0
        length     == IF doc_id \in DOMAIN profile_length_by_id
                      THEN profile_length_by_id[doc_id] ELSE 0
    IN    NAME_TOKEN_WEIGHT * MatchCount(query_tokens, meta)
        + (IF ExactName(query_name, meta) THEN EXACT_NAME_BONUS ELSE 0)
        + (IF PrefixName(query_name, meta) THEN NAME_PREFIX_BONUS ELSE 0)
        + (IF RawSubstring(raw, meta) THEN RAW_SUBSTRING_BONUS ELSE 0)
        - (IF ~matched /\ query_tokens # << >> THEN NON_NAME_MATCH_PENALTY ELSE 0)
        + (IF value # 0
           THEN (MARKET_VALUE_WEIGHT \div SCALE)
                * ((SCALE * LN[1 + value]) \div LogMax(player_market_value))
           ELSE 0)
        + (IF length # 0
           THEN (PROFILE_LENGTH_WEIGHT \div SCALE)
                * ((SCALE * LN[1 + length]) \div LogMax(profile_length_by_id))
           ELSE 0)

\* The boost of one document
Boost(query, query_tokens, doc_id, forward_index) ==
    LET meta       == build_name_metadata(doc_by_id(forward_index, doc_id).player_name)
        query_name == JoinSpace(normalize_name_tokens(query))
        raw        == Strip(Lower(query))
        matched    == HasNameMatch(query, query_tokens, meta)
        value      == IF doc_id \in DOMAIN player_market_value
                      THEN player_market_value[doc_id] ELSE 0
        length     == IF doc_id \in DOMAIN profile_length_by_id
                      THEN profile_length_by_id[doc_id] ELSE 0
    IN    NAME_TOKEN_WEIGHT * MatchCount(query_tokens, meta)
        + (IF ExactName(query_name, meta) THEN EXACT_NAME_BONUS ELSE 0)
        + (IF PrefixName(query_name, meta) THEN NAME_PREFIX_BONUS ELSE 0)
        + (IF RawSubstring(raw, meta) THEN RAW_SUBSTRING_BONUS ELSE 0)
        - (IF ~matched /\ query_tokens # << >> THEN NON_NAME_MATCH_PENALTY ELSE 0)
        + (IF matched /\ value # 0
           THEN (MARKET_VALUE_WEIGHT \div SCALE)
                * ((SCALE * LN[1 + value]) \div LogMax(player_market_value))
           ELSE 0)
        + (IF matched /\ length # 0
           THEN (PROFILE_LENGTH_WEIGHT \div SCALE)
                * ((SCALE * LN[1 + length]) \div LogMax(profile_length_by_id))
           ELSE 0)

\* for doc_id in scores: scores[doc_id] += boost
ApplyBoosts(scores, query, query_tokens, forward_index) ==
    [ i \in DOMAIN scores |->
        [ k |-> scores[i].k,
          v |-> scores[i].v + Boost(query, query_tokens, scores[i].k, forward_index) ] ]

\* The floating point operations that give a document its score: for each
\* term_id of the query the (tf, df) of the bm25_score call added to it, the
\* document length, and the inputs of its boost.  Two documents with the
\* same operations have the same float score.
ScoreOperations(doc_id, query, query_tokens, term_ids, lexicon_entries, forward_index, term_to_barrel, loaded) ==
    LET meta == build_name_metadata(doc_by_id(forward_index, doc_id).player_name)
        Call(tid) ==
            LET key == Str(tid)
                df  == term_document_frequency(lexicon_entries, tid)
            IN  IF df = 0 \/ key \notin DOMAIN term_to_barrel
                   \/ term_to_barrel[key] \notin DOMAIN loaded
                   \/ key \notin DOMAIN loaded[term_to_barrel[key]].inverted_index
                THEN << >>
                ELSE LET postings == loaded[term_to_barrel[key]].inverted_index[key].postings
                         own == SelectSeq(postings, LAMBDA p : ParseInt(p.k) = doc_id)
                     IN  << df >> \o [ i \in DOMAIN own |-> own[i].v.tf ]
    IN  [ calls   |-> [ i \in DOMAIN term_ids |-> Call(term_ids[i]) ],
          doc_len |-> doc_by_id(forward_index, doc_id).total_terms,
          names   |-> << MatchCount(query_tokens, meta),
                         ExactName(JoinSpace(normalize_name_tokens(query)), meta),
                         PrefixName(JoinSpace(normalize_name_tokens(query)), meta),
                         RawSubstring(Strip(Lower(query)), meta) >>,
          value   |-> IF /\ HasNameMatch(query, query_tokens, meta)
                         /\ doc_id \in DOMAIN player_market_value
                      THEN player_market_value[doc_id] ELSE 0,
          length  |-> IF /\ HasNameMatch(query, query_tokens, meta)
                         /\ doc_id \in DOMAIN profile_length_by_id
                      THEN profile_length_by_id[doc_id] ELSE 0 ]

\* The fixed point bm25_score is within BM25_ERROR units of SCALE times the
\* float: the two LN entries are rounded (half a unit each), their
\* difference is multiplied by less than k1 + 1 = 2.2, and the division is
\* floored (less than one unit)
BM25_ERROR == 4

\* The units by which the fixed point score of a document can differ from
\* SCALE times its float: BM25_ERROR per bm25_score call added to it, and,
\* for a valuation or length boost below the maximum, three units of the
\* floored logarithm ratio times the weight
ScoreError(operations) ==
    LET made == { i \in DOMAIN operations.calls : Len(operations.calls[i]) > 1 }
        calls == SumOver([ i \in made |-> Len(operations.calls[i]) - 1 ], made)
    IN    BM25_ERROR * calls
        + (IF operations.value \notin { 0, SetMax({ player_market_value[p] :
                                                     p \in DOMAIN player_market_value }) }
           THEN 3 * (MARKET_VALUE_WEIGHT \div SCALE) ELSE 0)
        + (IF operations.length \notin { 0, SetMax({ profile_length_by_id[p] :
                                                      p \in DOMAIN profile_length_by_id }) }
           THEN 3 * (PROFILE_LENGTH_WEIGHT \div SCALE) ELSE 0)

\* The scores are floats and the model's are fixed point.  Two documents
\* whose scores come from the same operations have the same float.  For two
\* documents of different operations the fixed point scores decide the order
\* of the floats only when they are further apart than the two errors; closer
\* than that, the order of the floats is decided by digits the fixed point
\* does not compute, and either order (or equality) is possible.  A rounding
\* gives each document of the scores the rank of its float among the floats
\* (a larger rank for a larger float).
Roundings(scored) ==
    LET scores     == scored.scores
        operations == scored.operations
        ids == { scores[i].k : i \in DOMAIN scores }
        err == [ i \in DOMAIN scores |-> ScoreError(operations[scores[i].k]) ]
        SameFloat(i, j) == operations[scores[i].k] = operations[scores[j].k]
        Above(i, j)     == scores[i].v - scores[j].v > err[i] + err[j]
        Undecided == { i \in DOMAIN scores :
                         \E j \in DOMAIN scores :
                             ~SameFloat(i, j) /\ ~Above(i, j) /\ ~Above(j, i) }
    IN  IF Undecided = {}
        THEN { [ id \in ids |->
                   Cardinality({ j \in DOMAIN scores :
                                   \E i \in DOMAIN scores : scores[i].k = id /\ Above(i, j) }) ] }
        ELSE { rounding \in [ ids -> 0..(Len(scores) - 1) ] :
                 \A i, j \in DOMAIN scores :
                     /\ SameFloat(i, j) => rounding[scores[i].k] = rounding[scores[j].k]
                     /\ Above(i, j) => rounding[scores[i].k] > rounding[scores[j].k] }

\* Where sorted(..., reverse=True) puts an item: after every item whose
\* float is not smaller (the sort is stable, so ties keep their order)
RECURSIVE InsertRanked(_, _, _)
InsertRanked(ranked, item, rounding) ==
    IF ranked = << >> THEN << item >>
    ELSE IF rounding[Head(ranked).k] >= rounding[item.k]
    THEN << Head(ranked) >> \o InsertRanked(Tail(ranked), item, rounding)
    ELSE << item >> \o ranked

\* sorted(scores.items(), key=lambda x: x[1], reverse=True)
RECURSIVE SortByScore(_, _, _)
SortByScore(items, ranked, rounding) ==
    IF items = << >> THEN ranked
    ELSE SortByScore(Tail(items), InsertRanked(ranked, Head(items), rounding), rounding)

\* [:top_k] for top_k >= 0
Truncate(ranked, top_k) ==
    IF Len(ranked) <= top_k THEN ranked ELSE SubSeq(ranked, 1, top_k)

Results(ranked, forward_index) ==
    [ i \in DOMAIN ranked |->
        [ rank        |-> i,
          doc_id      |-> ranked[i].k,
          player_id   |-> doc_by_id(forward_index, ranked[i].k).player_id,
          player_name |-> doc_by_id(forward_index, ranked[i].k).player_name,
          score       |-> ranked[i].v ] ]

\* Faulty variant: no term_id for the query is an error
NoTermIds_Raises(cache) ==
    [ result |-> [ kind |-> "raise", exc |-> "KeyError" ], cache |-> cache ]

\* if not term_ids: return []
NoTermIds(cache) ==
    [ result |-> [ kind |-> "list", results |-> << >> ], cache |-> cache ]

\* search(query, top_k) from the end of the loading loop to the boost pass:
\* the scores of the documents and the float operations behind them, or the
\* exception.  ld holds the barrel cache and loaded_barrels after the loop.
SearchLoaded(query, lexicon_entries, forward_index, term_to_barrel, ld) ==
    LET query_tokens == normalize_and_tokenize(query)
        term_ids     == tokens_to_term_ids(query_tokens, lexicon_entries)
        acc == Accumulate(term_ids, lexicon_entries, forward_index, term_to_barrel,
                          ld.loaded, [ ok |-> TRUE, exc |-> "", scores |-> << >> ])
    IN  IF ~acc.ok
        THEN [ kind   |-> "return",
               result |-> [ result |-> [ kind |-> "raise", exc |-> acc.exc ],
                            cache  |-> ld.cache ],
               scores |-> << >>, operations |-> EmptyDict ]
        ELSE [ kind   |-> "scores",
               result |-> [ result |-> [ kind |-> "list", results |-> << >> ],
                            cache  |-> ld.cache ],
               scores |-> ApplyBoosts(acc.scores, query, query_tokens, forward_index),
               operations |->
                   [ doc_id \in { acc.scores[i].k : i \in DOMAIN acc.scores } |->
                       ScoreOperations(doc_id, query, query_tokens, term_ids,
                                       lexicon_entries, forward_index,
                                       term_to_barrel, ld.loaded) ] ]

\* search(query, top_k) up to the boost pass when no file changes during the
\* call: the early return, or the loading loop and the scores.  order is the
\* iteration order of the set required_barrels.
SearchScores(query, order, lexicon_entries, forward_index, term_to_barrel, cache, barrels) ==
    IF tokens_to_term_ids(normalize_and_tokenize(query), lexicon_entries) = << >>
    THEN [ kind |-> "return", result |-> NoTermIds(cache),
           scores |-> << >>, operations |-> EmptyDict ]
    ELSE SearchLoaded(query, lexicon_entries, forward_index, term_to_barrel,
                      LoadRequired(order, cache, EmptyDict, barrels))

\* search(query, top_k) from the ranking on: ranked = sorted(...)[:top_k] and
\* the result list.  rounding is the rounding of the float scores.
Ranked(scored, top_k, rounding, forward_index) ==
    IF scored.kind = "return" THEN scored.result
    ELSE [ scored.result EXCEPT
             !.result.results =
                 Results(Truncate(SortByScore(scored.scores, << >>, rounding), top_k),
                         forward_index) ]

\* search(query, top_k): what it returns and the barrel cache after the call
search(query, top_k, order, rounding, lexicon_entries, forward_index, term_to_barrel, cache, barrels) ==
    Ranked(SearchScores(query, order, lexicon_entries, forward_index, term_to_barrel,
                        cache, barrels),
           top_k, rounding, forward_index)
---------------------------------------------------------------------------
(* build_complete_lexicons.py and build_forward_index.py *)

\* The tokens build_complete_lexicons collects for one document: the stems
\* of detailed_content and of metadata.current_club
BuildDocTokens(doc) ==
    Range(StemSurvivors(FindWords(Lower(doc.detailed_content)), BUILD_STOP_WORDS))
    \cup Range(StemSurvivors(FindWords(Lower(doc.current_club)), BUILD_STOP_WORDS))

\* The calls doc_tokens.add(stemmed) for one document, in order
BuildDocAdds(doc) ==
    StemSurvivors(FindWords(Lower(doc.detailed_content)), BUILD_STOP_WORDS)
    \o StemSurvivors(FindWords(Lower(doc.current_club)), BUILD_STOP_WORDS)

\* The keys of lexicon_df in insertion order when the build runs with
\* PYTHONHASHSEED seed: documents in order, the tokens of one document in the
\* iteration order of its set doc_tokens
RECURSIVE NewKeys(_, _)
NewKeys(tokens, keys) ==
    IF tokens = << >> THEN keys
    ELSE NewKeys(Tail(tokens),
                 IF Head(tokens) \in Range(keys) THEN keys ELSE Append(keys, Head(tokens)))

RECURSIVE LexiconDfKeys(_, _, _)
LexiconDfKeys(docs, seed, keys) ==
    IF docs = << >> THEN keys
    ELSE LexiconDfKeys(Tail(docs), seed,
                       NewKeys(SetOrder(BuildDocAdds(Head(docs)), seed), keys))

BuildTokens(docs) == UNION { BuildDocTokens(docs[i]) : i \in DOMAIN docs }

\* lexicon_df[token]: the number of documents whose token set holds the token
LexiconDf(docs, token) == Cardinality({ i \in DOMAIN docs : token \in BuildDocTokens(docs[i]) })

FirstDoc(docs, token) ==
    CHOOSE i \in DOMAIN docs :
        /\ token \in BuildDocTokens(docs[i])
        /\ \A j \in 1..(i - 1) : token \notin BuildDocTokens(docs[j])

\* The orders in which lexicon_df can hold its keys: documents in order, the
\* tokens of one document in the iteration order of a set
InsertionOrders(docs) ==
    { s \in [1..Cardinality(BuildTokens(docs)) -> BuildTokens(docs)] :
        /\ \A i, j \in DOMAIN s : i # j => s[i] # s[j]
        /\ \A i, j \in DOMAIN s : i < j => FirstDoc(docs, s[i]) <= FirstDoc(docs, s[j]) }

\* entries.sort(key=lambda x: x["df"], reverse=True): a stable sort
RECURSIVE InsertByDf(_, _)
InsertByDf(sorted, entry) ==
    IF sorted = << >> THEN << entry >>
    ELSE IF Head(sorted).df >= entry.df
    THEN << Head(sorted) >> \o InsertByDf(Tail(sorted), entry)
    ELSE << entry >> \o sorted

RECURSIVE SortByDf(_, _)
SortByDf(entries, sorted) ==
    IF entries = << >> THEN sorted
    ELSE SortByDf(Tail(entries), InsertByDf(sorted, Head(entries)))

\* build_complete_lexicons.py: the entries it saves; term_id is the index
\* in the sorted list, from 0
BuildLexicon(docs, order) ==
    LET entries == [ i \in DOMAIN order |->
                       [ token |-> order[i], df |-> LexiconDf(docs, order[i]) ] ]
        sorted  == SortByDf(entries, << >>)
    IN  [ i \in DOMAIN sorted |->
            [ token |-> sorted[i].token, df |-> sorted[i].df, term_id |-> i - 1 ] ]

\* token_tf and token_positions of build_forward_index.py, over the raw words
RECURSIVE WordFreq(_, _, _)
WordFreq(words, position, acc) ==
    IF words = << >> THEN acc
    ELSE LET w   == Head(words)
             old == IF ODHas(acc, w) THEN ODGet(acc, w) ELSE [ tf |-> 0, positions |-> << >> ]
         IN  WordFreq(Tail(words), position + 1,
                      ODSet(acc, w, [ tf        |-> old.tf + 1,
                                      positions |-> Append(old.positions, position) ]))

\* positions[:10]
FirstTen(positions) ==
    IF Len(positions) <= 10 THEN positions ELSE SubSeq(positions, 1, 10)

\* The word the forward index builder looks up in token_to_id
ForwardLookupKey(word) == word

\* term_entries of one document: the words that are lexicon tokens
RECURSIVE TermEntries(_, _)
TermEntries(items, lexicon_entries) ==
    IF items = << >> THEN << >>
    ELSE LET token == ForwardLookupKey(Head(items).k)
         IN  IF ~HasTokenId(lexicon_entries, token)
             THEN TermEntries(Tail(items), lexicon_entries)
             ELSE << [ term_id   |-> token_to_id(lexicon_entries, token),
                       tf        |-> Head(items).v.tf,
                       positions |-> FirstTen(Head(items).v.positions) ] >>
                  \o TermEntries(Tail(items), lexicon_entries)

BuildForwardEntry(doc, lexicon_entries) ==
    LET term_entries == TermEntries(WordFreq(FindWords(Lower(doc.detailed_content)), 0, << >>),
                                    lexicon_entries)
    IN  [ player_id    |-> doc.player_id,
          player_name  |-> doc.player_name,
          terms        |-> [ kind |-> "list", items |-> term_entries ],
          total_terms  |-> SumSeq([ i \in DOMAIN term_entries |-> term_entries[i].tf ]),
          unique_terms |-> Len(term_entries) ]

\* build_forward_index.py
BuildForwardIndex(docs, lexicon_entries) ==
    [ i \in DOMAIN docs |-> BuildForwardEntry(docs[i], lexicon_entries) ]


\* The token sequence build_complete_lexicons.py takes from a text: the
\* words that pass its stop word set and length gate, stemmed
LexiconBuildTokens(text) == StemSurvivors(FindWords(Lower(text)), BUILD_STOP_WORDS)

\* The token sequence build_forward_index.py takes from a text: the words it
\* counts and looks up in the lexicon
ForwardBuildTokens(text) ==
    LET words == FindWords(Lower(text))
    IN  [ i \in DOMAIN words |-> ForwardLookupKey(words[i]) ]
---------------------------------------------------------------------------
(* Inputs *)

MaxPlayerId == 3     \* player_id of add_document ranges over 0..MaxPlayerId
MaxBesideId == 2     \* and over 0..MaxBesideId while the search process runs beside it
MaxTopK     == 2     \* top_k of search is 1 or MaxTopK
MaxCorpus   == 2     \* the bulk build runs over 1..MaxCorpus documents

wMessi == << "M","e","s","s","i" >>
wLi    == << "L","i" >>
wKane  == << "K","a","n","e" >>
wThe   == << "T","h","e" >>

tMessi == << "m","e","s","s","i" >>
tRun   == << "r","u","n" >>
tKane  == << "k","a","n","e" >>
tGoal  == << "g","o","a","l" >>

bMessiRunRun == << "m","e","s","s","i"," ","r","u","n"," ","r","u","n" >>
bRunsTheRuns == << "r","u","n","s"," ","t","h","e"," ","r","u","n","s" >>
bGoals       == << "g","o","a","l","s" >>
bGoalsRunsRuns == << "g","o","a","l","s"," ","r","u","n","s"," ","r","u","n","s" >>
bKane        == << "k","a","n","e" >>
bA1Of        == << "a","1"," ","o","f" >>
bRuns        == << "r","u","n","s" >>
bMessiRun    == << "m","e","s","s","i"," ","r","u","n" >>

\* (player_name, detailed_content) of documents add_document accepts
ContentPool ==
    { [ player_name |-> wKane,  detailed_content |-> bGoalsRunsRuns ],
      [ player_name |-> wMessi, detailed_content |-> bKane ] }

\* player_data: the accepted contents under every player_id from 1, and
\* inputs with player_id 0, without the player_id key, without the
\* player_name key, and with no token that survives
PlayerDataPool ==
    { [ player_id |-> p, player_name |-> c.player_name,
        detailed_content |-> c.detailed_content ] : p \in 1..MaxPlayerId, c \in ContentPool }
    \cup { [ player_id |-> 0, player_name |-> wKane, detailed_content |-> bKane ],
           [ player_name |-> wKane, detailed_content |-> bKane ],
           [ player_id |-> 1, detailed_content |-> bRuns ],
           [ player_id |-> 1, player_name |-> wThe, detailed_content |-> bA1Of ],
           [ player_id |-> 2, player_name |-> wThe, detailed_content |-> bA1Of ] }

\* The inputs of add_document while the search process runs beside it
BesidePool ==
    { player_data \in PlayerDataPool :
        HasKey(player_data, "player_id") => player_data.player_id <= MaxBesideId }

QueryPool == { bKane, bMessiRun }

\* The sequences that enumerate a set once each
Orders(S) ==
    { s \in [1..Cardinality(S) -> S] : \A i, j \in DOMAIN s : i # j => s[i] # s[j] }

\* (player_name, detailed_content, metadata.current_club) of the profiles
\* the bulk build reads
CorpusContentPool ==
    { [ player_name |-> wMessi, detailed_content |-> bMessiRunRun, current_club |-> << >> ],
      [ player_name |-> wMessi, detailed_content |-> bMessiRun,    current_club |-> << >> ],
      [ player_name |-> wLi,    detailed_content |-> bRunsTheRuns, current_club |-> << >> ],
      [ player_name |-> wKane,  detailed_content |-> bKane,        current_club |-> bGoals ],
      [ player_name |-> wKane,  detailed_content |-> bGoals,       current_club |-> << >> ],
      [ player_name |-> wThe,   detailed_content |-> bA1Of,        current_club |-> << >> ] }

\* Corpora: documents 1..n, each with a content of the pool
Corpora ==
    UNION { { [ i \in 1..n |-> [ player_id        |-> i,
                                 player_name      |-> c[i].player_name,
                                 detailed_content |-> c[i].detailed_content,
                                 current_club     |-> c[i].current_club ] ] :
              c \in [1..n -> CorpusContentPool] } : n \in 1..MaxCorpus }

---------------------------------------------------------------------------
(* The index the processes start from: the bulk build of one profile,       *)
(* {player_id 2, "Messi", "messi run run"}, its forward index file placed   *)
(* in data/index, sharded over two barrels.                                 *)

InitCorpus ==
    << [ player_id        |-> 2,
         player_name      |-> wMessi,
         detailed_content |-> bMessiRunRun,
         current_club     |-> << >> ] >>

\* The orders in which the set doc_tokens of the profile can be iterated:
\* the two tokens have the same df, so their term_ids follow that order
InitOrders == InsertionOrders(InitCorpus)

InitLexicon(order) == BuildLexicon(InitCorpus, order)

InitForward(order) == BuildForwardIndex(InitCorpus, InitLexicon(order))

InitRouting == [ t \in { Str(0), Str(1) } |-> BarrelName(ParseInt(t)) ]

InitBarrels(order) ==
    [ bn \in { BarrelName(0), BarrelName(1) } |->
        LET t     == BarrelIndex(bn)
            items == InitForward(order)[1].terms.items
            item  == items[CHOOSE i \in DOMAIN items : items[i].term_id = t]
        IN  [ metadata       |-> [ term_count |-> 1, posting_count |-> 1, barrel_name |-> bn ],
              inverted_index |->
                  [ key \in { Str(t) } |->
                      [ token    |-> InitLexicon(order)[t + 1].token,
                        df       |-> InitLexicon(order)[t + 1].df,
                        postings |-> << [ k |-> Str(2), v |-> [ tf |-> item.tf ] ] >> ] ] ] ]

InitFiles(order) ==
    [ lexicon |-> InitLexicon(order), forward |-> InitForward(order),
      routing |-> InitRouting,        barrels |-> InitBarrels(order) ]

\* lastOp when no call has been made, and after a step that is not the
\* return of add_document or search
NoOp   == [ op |-> "none" ]
InCall == [ op |-> "step" ]
NoCall == [ active |-> FALSE ]

\* add_document.py has run load_indexes() and search_engine has been
\* imported by a process whose PYTHONHASHSEED is seed, both on the same
\* index files, beside the profiles file; no call has been made
Started(files, profiles, seed) ==
    /\ diskLexicon  = files.lexicon
    /\ diskForward  = files.forward
    /\ diskRouting  = files.routing
    /\ diskBarrels  = files.barrels
    /\ cwdForward   = << >>
    /\ indexes      = load_indexes(files.lexicon, files.forward, files.routing)
    /\ adding       = NoCall
    /\ sePc         = "ready"
    /\ seLexicon    = files.lexicon
    /\ seForward    = files.forward
    /\ seRouting    = files.routing
    /\ profile_length_by_id = load_profile_lengths(profiles)
    /\ seHashSeed   = seed
    /\ barrel_cache = << >>
    /\ searching    = NoCall
    /\ lastOp       = NoOp
    /\ oplog        = << >>
    /\ failures     = 0
    /\ corpus       = profiles
    /\ buildPc      = "done"

Init == \E order \in InitOrders : Started(InitFiles(order), InitCorpus, 0)

Files == [ lexicon |-> diskLexicon, forward |-> diskForward,
           routing |-> diskRouting, barrels |-> diskBarrels ]

diskVars  == << diskLexicon, diskForward, diskRouting, diskBarrels >>
addVars   == << indexes, adding, oplog, failures >>
seModule  == << sePc, seLexicon, seForward, seRouting, profile_length_by_id, seHashSeed >>
buildVars == << cwdForward, corpus, buildPc >>

---------------------------------------------------------------------------
(* The add_document.py process *)

\* load_indexes() at the start of add_document.py
LoadIndexes ==
    /\ ~adding.active
    /\ indexes' = load_indexes(diskLexicon, diskForward, diskRouting)
    /\ lastOp'  = InCall
    /\ oplog'   = << >>
    /\ UNCHANGED << diskVars, adding, failures, seModule, barrel_cache, searching, buildVars >>

\* A call of add_document(player_data, indexes): an early return, or steps 1
\* to 3, which leave the files as they are
AddDocumentOf(inputs) ==
    /\ ~adding.active
    /\ \E player_data \in inputs :
         IF AddError(player_data, indexes) # "ok"
         THEN \E r \in { add_document(player_data, indexes, Files) } :
                 /\ indexes'     = r.indexes
                 /\ diskLexicon' = r.files.lexicon
                 /\ diskForward' = r.files.forward
                 /\ diskRouting' = r.files.routing
                 /\ diskBarrels' = r.files.barrels
                 /\ adding'      = adding
                 /\ lastOp'      = [ op |-> "add", player_data |-> player_data,
                                     result |-> r.result ]
                 /\ oplog'       = r.log
         ELSE /\ indexes' = add_document_at(player_data, indexes, Files, 0).indexes
              /\ adding'  = [ active      |-> TRUE,
                              player_data |-> player_data,
                              before      |-> [ indexes |-> indexes, files |-> Files ],
                              written     |-> 0,
                              next        |-> WrittenFiles(player_data, indexes, Files)[1] ]
              /\ lastOp'  = InCall
              /\ oplog'   = << >>
              /\ UNCHANGED diskVars
    /\ UNCHANGED << failures, seModule, barrel_cache, searching, buildVars >>

AddDocument == AddDocumentOf(PlayerDataPool)

AddDocumentBeside == AddDocumentOf(BesidePool)

\* The call of add_document completes its next file write: a pass of the
\* barrel loop, or one of the three saves of step 5; after the last one it
\* returns its stats
AddWrite ==
    /\ adding.active
    /\ \E files \in { WrittenFiles(adding.player_data, adding.before.indexes,
                                   adding.before.files) } :
       \E at \in { add_document_at(adding.player_data, adding.before.indexes,
                                   adding.before.files, adding.written + 1) } :
         /\ indexes'     = at.indexes
         /\ diskLexicon' = at.files.lexicon
         /\ diskForward' = at.files.forward
         /\ diskRouting' = at.files.routing
         /\ diskBarrels' = at.files.barrels
         /\ oplog'       = at.log
         /\ IF adding.written + 1 = Len(files)
            THEN /\ adding' = NoCall
                 /\ lastOp' = [ op |-> "add", player_data |-> adding.player_data,
                                result |-> add_document(adding.player_data,
                                                        adding.before.indexes,
                                                        adding.before.files).result ]
            ELSE /\ adding' = [ adding EXCEPT !.written = @ + 1,
                                              !.next    = files[adding.written + 2] ]
                 /\ lastOp' = InCall
    /\ UNCHANGED << failures, seModule, barrel_cache, searching, buildVars >>

\* The indexes dict and the files as they were when the call of add_document
\* that is running (or returning in this step) was made
IndexesBefore == IF adding.active THEN adding.before.indexes ELSE indexes

FilesBefore == IF adding.active THEN adding.before.files ELSE Files

---------------------------------------------------------------------------
(* The search_engine process *)

\* json.load of an index file by the search_engine process: add_document
\* opens a file for writing (which empties it) and then dumps into it, with
\* no lock, so between two completed writes of a call the file written next
\* is read either whole, as it was, or truncated (JSONDecodeError)
FileReads(file) ==
    IF adding.active /\ adding.next = file THEN { "whole", "truncated" } ELSE { "whole" }

\* python search_engine.py, or import search_engine: a new process, with a
\* PYTHONHASHSEED of seeds, whose module level code first reads the lexicon
StartSearchEngineOf(seeds) ==
    /\ sePc \in { "ready", "down" }
    /\ ~searching.active
    /\ \E seed \in seeds : seHashSeed' = seed
    /\ \E read \in FileReads(LexiconFile) :
         IF read = "truncated"
         THEN /\ sePc' = "down"
              /\ seLexicon' = << >>
              /\ lastOp' = InCall
         ELSE /\ sePc' = "forward"
              /\ seLexicon' = diskLexicon
              /\ lastOp' = InCall
    /\ seForward'    = << >>
    /\ seRouting'    = EmptyDict
    /\ profile_length_by_id' = EmptyDict
    /\ barrel_cache' = << >>
    /\ UNCHANGED << diskVars, addVars, searching, buildVars >>

\* The processes whose searches take every iteration order of a set (Orders)
\* do not read the hash seed
StartSearchEngine == StartSearchEngineOf({ 0 })

\* The module level code reads the forward index
ImportForward ==
    /\ sePc = "forward"
    /\ \E read \in FileReads(ForwardFile) :
         IF read = "truncated"
         THEN /\ sePc' = "down"
              /\ seLexicon' = << >>
              /\ seForward' = << >>
              /\ lastOp' = InCall
         ELSE /\ sePc' = "routing"
              /\ seLexicon' = seLexicon
              /\ seForward' = diskForward
              /\ lastOp' = InCall
    /\ UNCHANGED << diskVars, addVars, seRouting, profile_length_by_id, seHashSeed,
                    barrel_cache, searching, buildVars >>

\* The module level code reads the routing table, the market values and the
\* profile lengths, and makes the empty barrel cache
ImportRouting ==
    /\ sePc = "routing"
    /\ \E read \in FileReads(RoutingFile) :
         IF read = "truncated"
         THEN /\ sePc' = "down"
              /\ seLexicon' = << >>
              /\ seForward' = << >>
              /\ seRouting' = EmptyDict
              /\ profile_length_by_id' = EmptyDict
              /\ lastOp' = InCall
         ELSE /\ sePc' = "ready"
              /\ seLexicon' = seLexicon
              /\ seForward' = seForward
              /\ seRouting' = diskRouting
              /\ profile_length_by_id' = load_profile_lengths(corpus)
              /\ lastOp' = InCall
    /\ barrel_cache' = << >>
    /\ UNCHANGED << diskVars, addVars, seHashSeed, searching, buildVars >>

\* A call of load_barrel(barrel_name): it returns the barrel or None, or
\* raises JSONDecodeError on a truncated file, and leaves the cache
LoadBarrelOf(names) ==
    /\ sePc = "ready"
    /\ ~searching.active
    /\ \E barrel_name \in names :
         \E read \in (IF ODHas(barrel_cache, barrel_name) THEN { "whole" }
                      ELSE FileReads(barrel_name)) :
           barrel_cache' = IF read = "truncated" THEN barrel_cache
                           ELSE CacheAfterLoad(barrel_cache, barrel_name, diskBarrels)
    /\ lastOp' = InCall
    /\ UNCHANGED << diskVars, addVars, seModule, searching, buildVars >>

\* The barrel names load_barrel is called with: the shards of the initial
\* index and one that has no file
BarrelNamePool == { BarrelName(0), BarrelName(1), BarrelName(2) }

LoadBarrel == LoadBarrelOf(BarrelNamePool)

\* search(query, top_k) returns, from the BM25 loop on
SearchReturn(query, ld) ==
    \E scored \in { SearchLoaded(query, seLexicon, seForward, seRouting, ld) } :
      \E rounding \in Roundings(scored), top_k \in { 1, MaxTopK } :
        LET r == Ranked(scored, top_k, rounding, seForward)
        IN  /\ barrel_cache' = r.cache
            /\ searching'    = NoCall
            /\ lastOp'       = [ op |-> "search", query |-> query, top_k |-> top_k,
                                 result |-> r.result ]

\* search(query, top_k) in its loading loop: the next pass of "for
\* barrel_name in required_barrels", and the rest of the call when that was
\* the last pass.  order holds the barrels of the passes to come, ld the
\* barrel cache and loaded_barrels, before the cache as it was at the call.
SearchPass(query, order, ld, before) ==
    IF order = << >> THEN SearchReturn(query, ld)
    ELSE \E read \in (IF ODHas(ld.cache, Head(order)) THEN { "whole" }
                      ELSE FileReads(Head(order))) :
           IF read = "truncated"
           THEN \E top_k \in { 1, MaxTopK } :
                  /\ barrel_cache' = ld.cache
                  /\ searching'    = NoCall
                  /\ lastOp'       = [ op |-> "search", query |-> query, top_k |-> top_k,
                                       result |-> [ kind |-> "raise",
                                                    exc  |-> "JSONDecodeError" ] ]
           ELSE \E ld1 \in { LoadRequired(<< Head(order) >>, ld.cache, ld.loaded,
                                          diskBarrels) } :
                  IF Tail(order) = << >> THEN SearchReturn(query, ld1)
                  ELSE /\ barrel_cache' = ld1.cache
                       /\ searching'    = [ active |-> TRUE,
                                            query  |-> query,
                                            order  |-> Tail(order),
                                            loaded |-> ld1.loaded,
                                            before |-> before ]
                       /\ lastOp'       = InCall

\* A call of search(query, top_k): the early return, or the call up to the
\* end of the first pass of its loading loop.  OrdersOf gives the iteration
\* orders of the set required_barrels from the sequence of its add calls.
SearchOf(queries, OrdersOf(_)) ==
    /\ sePc = "ready"
    /\ ~searching.active
    /\ \E query \in queries :
         \E term_ids \in { tokens_to_term_ids(normalize_and_tokenize(query), seLexicon) } :
           IF term_ids = << >>
           THEN \E top_k \in { 1, MaxTopK } :
                  LET r == NoTermIds(barrel_cache)
                  IN  /\ barrel_cache' = r.cache
                      /\ searching'    = NoCall
                      /\ lastOp'       = [ op |-> "search", query |-> query,
                                           top_k |-> top_k, result |-> r.result ]
           ELSE \E order \in OrdersOf(RequiredAdds(term_ids, seRouting)) :
                  SearchPass(query, order, [ cache |-> barrel_cache, loaded |-> EmptyDict ],
                             barrel_cache)
    /\ UNCHANGED << diskVars, addVars, seModule, buildVars >>

\* Every order of the barrels added: the orders of all hash seeds
AnyOrder(adds) == Orders(Range(adds))

Search == SearchOf(QueryPool, AnyOrder)

\* The call of search runs the next pass of its loading loop
SearchLoad ==
    /\ searching.active
    /\ SearchPass(searching.query, searching.order,
                  [ cache |-> barrel_cache, loaded |-> searching.loaded ], searching.before)
    /\ UNCHANGED << diskVars, addVars, seModule, buildVars >>

\* The barrel cache as it was when the call of search that is running (or
\* returning in this step) was made
CacheBefore == IF searching.active THEN searching.before ELSE barrel_cache

\* The add_document.py process and the search_engine process on the same
\* index files
Next ==
    \/ LoadIndexes \/ AddDocumentBeside \/ AddWrite
    \/ StartSearchEngine \/ ImportForward \/ ImportRouting
    \/ LoadBarrel \/ Search \/ SearchLoad

Spec == Init /\ [][Next]_vars

\* The add_document.py process alone
NextAdd == LoadIndexes \/ AddDocument \/ AddWrite

SpecAdd == Init /\ [][NextAdd]_vars

\* The index files after add_document of each input in turn, in one process
RECURSIVE AddAll(_, _, _)
AddAll(inputs, idx, files) ==
    IF inputs = << >> THEN files
    ELSE LET r == add_document(Head(inputs), idx, files)
         IN  AddAll(Tail(inputs), r.indexes, r.files)

\* The sequences of at most two inputs of distinct player_id that
\* add_document accepts on the initial index
AddSequences(order) ==
    LET idx      == load_indexes(InitLexicon(order), InitForward(order), InitRouting)
        accepted == { player_data \in PlayerDataPool : AddError(player_data, idx) = "ok" }
    IN  { << >> } \cup { << a >> : a \in accepted }
        \cup { s \in { << a, b >> : a \in accepted, b \in accepted } :
                   s[1].player_id # s[2].player_id }

\* The search_engine process alone, started on the index files a sequence of
\* add_document calls has left
InitSearch ==
    \E order \in InitOrders :
        \E inputs \in AddSequences(order) :
            Started(AddAll(inputs,
                           load_indexes(InitLexicon(order), InitForward(order), InitRouting),
                           InitFiles(order)),
                    InitCorpus, 0)

NextSearch ==
    \/ StartSearchEngine \/ ImportForward \/ ImportRouting
    \/ LoadBarrel \/ Search \/ SearchLoad

SpecSearch == InitSearch /\ [][NextSearch]_vars

---------------------------------------------------------------------------
(* The bulk build as a pipeline of scripts over a corpus *)

InitBuild ==
    /\ corpus \in Corpora
    /\ buildPc      = "lexicon"
    /\ diskLexicon  = << >>
    /\ diskForward  = << >>
    /\ diskRouting  = EmptyDict
    /\ diskBarrels  = EmptyDict
    /\ cwdForward   = << >>
    /\ indexes      = [ lexicon |-> << >>, max_term_id |-> 0, forward_index |-> << >>,
                        term_to_barrel |-> EmptyDict ]
    /\ adding       = NoCall
    /\ sePc         = "down"
    /\ seLexicon    = << >>
    /\ seForward    = << >>
    /\ seRouting    = EmptyDict
    /\ profile_length_by_id = EmptyDict
    /\ seHashSeed   = 0
    /\ barrel_cache = << >>
    /\ searching    = NoCall
    /\ lastOp       = NoOp
    /\ oplog        = << >>
    /\ failures     = 0

\* python build_complete_lexicons.py
RunBuildLexicon ==
    /\ buildPc = "lexicon"
    /\ \E order \in InsertionOrders(corpus) :
           diskLexicon' = BuildLexicon(corpus, order)
    /\ buildPc' = "forward"
    /\ UNCHANGED << diskForward, diskRouting, diskBarrels, cwdForward, addVars, seModule,
                    barrel_cache, searching, lastOp, corpus >>

\* python build_forward_index.py: it reads data/index/lexicon_complete.json
\* and saves forward_index_termid.json in the working directory
RunBuildForwardIndex ==
    /\ buildPc = "forward"
    /\ cwdForward' = BuildForwardIndex(corpus, diskLexicon)
    /\ buildPc' = "done"
    /\ UNCHANGED << diskVars, addVars, seModule, barrel_cache, searching, lastOp, corpus >>

NextBuild == RunBuildLexicon \/ RunBuildForwardIndex

SpecBuild == InitBuild /\ [][NextBuild]_vars

---------------------------------------------------------------------------
(* The same processes on a data root where one barrel file the routing      *)
(* table names is absent                                                    *)

InitMissingShard ==
    \E order \in InitOrders, absent \in DOMAIN InitRouting :
        Started([ InitFiles(order) EXCEPT
                    !.barrels = [ bn \in DOMAIN @ \ { InitRouting[absent] } |-> @[bn] ] ],
                InitCorpus, 0)

SpecMissingShard == InitMissingShard /\ [][Next]_vars

---------------------------------------------------------------------------
(* A search process on an index of NumShards barrels: the bulk build of one *)
(* profile whose content is NumShards tokens, term_id i in barrel i, and    *)
(* then one add_document of a player with a two-letter name.  The build and *)
(* the search process each run with a PYTHONHASHSEED of HashSeeds, which    *)
(* fixes the iteration order of their sets: the term_ids of the tokens and  *)
(* the order in which a search loads its shards.                            *)

NumShards == 12      \* the number of barrel files, above MAX_CACHED_BARRELS

\* Token i of the sharded index: "kaa", "kba", "kca", ...
ShardToken(i) == << "k", LOWER[i], "a" >>

wKaa == << "K","a","a" >>
bThe == << "t","h","e" >>
bLi  == << "l","i" >>
bZzz == << "z","z","z" >>

ShardCorpus ==
    << [ player_id        |-> 2,
         player_name      |-> wKaa,
         detailed_content |-> JoinSpace([ i \in 1..NumShards |-> ShardToken(i) ]),
         current_club     |-> << >> ] >>

\* The bulk build's lexicon when build_complete_lexicons.py ran with
\* PYTHONHASHSEED build_seed: the tokens all have df 1, so the term_ids follow
\* the iteration order of the set doc_tokens
ShardLexicon(build_seed) == BuildLexicon(ShardCorpus, LexiconDfKeys(ShardCorpus, build_seed, << >>))

ShardForward(build_seed) == BuildForwardIndex(ShardCorpus, ShardLexicon(build_seed))

ShardRouting == [ t \in { Str(i) : i \in 0..(NumShards - 1) } |-> BarrelName(ParseInt(t)) ]

ShardBarrels(build_seed) ==
    [ bn \in { BarrelName(i) : i \in 0..(NumShards - 1) } |->
        LET t == BarrelIndex(bn)
        IN  [ metadata       |-> [ term_count |-> 1, posting_count |-> 1, barrel_name |-> bn ],
              inverted_index |->
                  [ key \in { Str(t) } |->
                      [ token    |-> ShardLexicon(build_seed)[t + 1].token,
                        df       |-> 1,
                        postings |-> << [ k |-> Str(2), v |-> [ tf |-> 1 ] ] >> ] ] ] ]

\* The player with a two-letter name that add_document has added
LiPlayer == [ player_id |-> 1, player_name |-> wLi, detailed_content |-> ShardToken(2) ]

ShardFiles(build_seed) ==
    add_document(LiPlayer,
                 load_indexes(ShardLexicon(build_seed), ShardForward(build_seed), ShardRouting),
                 [ lexicon |-> ShardLexicon(build_seed), forward |-> ShardForward(build_seed),
                   routing |-> ShardRouting, barrels |-> ShardBarrels(build_seed) ]).files

\* The query that needs MAX_CACHED_BARRELS + 1 shards
ManyShardQuery == JoinSpace([ i \in 1..(MAX_CACHED_BARRELS + 1) |-> ShardToken(i) ])

\* Queries: the one that needs MAX_CACHED_BARRELS + 1 shards, one token, the
\* same token twice, a stop word, a two-letter word, a word no document holds
ShardQueryPool ==
    { ManyShardQuery,
      ShardToken(1),
      ShardToken(2),
      FmtPair(ShardToken(1), ShardToken(1)),
      bThe, bLi, bZzz }

MaxHashSeed == 5     \* the processes run with PYTHONHASHSEED 0..MaxHashSeed

HashSeeds == 0..MaxHashSeed

\* "for barrel_name in required_barrels": the iteration order of the set in
\* the search process, from the sequence of its add calls
HashOrder(adds) == { SetOrder(adds, seHashSeed) }

InitShards ==
    \E build_seed \in HashSeeds :
        \E files \in { ShardFiles(build_seed) } :
            \E seed \in HashSeeds : Started(files, ShardCorpus, seed)

\* One call of search(query, top_k) in the sharded process
SearchShards == SearchOf(ShardQueryPool, HashOrder)

\* The barrel names load_barrel is called with in the sharded process
ShardBarrelNamePool == { BarrelName(0), BarrelName(NumShards) }

LoadBarrelShards == LoadBarrelOf(ShardBarrelNamePool)

StartSearchEngineShards == StartSearchEngineOf(HashSeeds)

NextShards ==
    \/ SearchShards \/ SearchLoad \/ LoadBarrelShards
    \/ StartSearchEngineShards \/ ImportForward \/ ImportRouting
    \/ LoadIndexes

SpecShards == InitShards /\ [][NextShards]_vars

---------------------------------------------------------------------------
(* The add_document process when a file cannot be opened for writing: the  *)
(* exception leaves add_document, the loop of main() prints it and reads   *)
(* the next input with the same indexes dict                               *)

\* The inputs of the calls that raise: the accepted contents under player_id 1
FailingPool ==
    { [ player_id |-> 1, player_name |-> c.player_name,
        detailed_content |-> c.detailed_content ] : c \in ContentPool }

MaxFailures == 1     \* the calls of add_document that fail in one run

\* The call of add_document under way raises at its next open() for writing,
\* whichever file that is (the first barrel, a later one, the lexicon, the
\* forward index or the routing table): the files written so far stay
AddDocumentFails ==
    /\ adding.active
    /\ adding.player_data \in FailingPool
    /\ failures < MaxFailures
    /\ failures' = failures + 1
    /\ \E r \in { add_document_fails(adding.player_data, adding.before.indexes,
                                     adding.before.files, adding.written) } :
         /\ indexes' = r.indexes
         /\ adding'  = NoCall
         /\ lastOp'  = [ op |-> "add", player_data |-> adding.player_data,
                         result |-> r.result ]
         /\ oplog'   = r.log
    /\ UNCHANGED << diskVars, seModule, barrel_cache, searching, buildVars >>

NextPartialFailure == AddDocument \/ AddWrite \/ AddDocumentFails \/ LoadIndexes

SpecPartialFailure == Init /\ [][NextPartialFailure]_vars
---------------------------------------------------------------------------
(* Properties *)

IsAdd(op)        == op.op = "add"
IsAddError(op)   == op.op = "add" /\ op.result.kind = "error"
IsAddSuccess(op) == op.op = "add" /\ op.result.kind = "success"
IsSearch(op)     == op.op = "search"

\* The term_ids a forward index entry lists, whichever shape terms has
TermIdsOfEntry(entry) ==
    IF entry.terms.kind = "list"
    THEN { entry.terms.items[i].term_id : i \in DOMAIN entry.terms.items }
    ELSE IF entry.terms.keytype = "int"
    THEN DOMAIN entry.terms.map
    ELSE { ParseInt(key) : key \in DOMAIN entry.terms.map }

\* The number of forward index entries that list the term_id
DocsWithTerm(forward_index, term_id) ==
    Cardinality({ i \in DOMAIN forward_index : term_id \in TermIdsOfEntry(forward_index[i]) })

\* Every lexicon entry's df is the number of documents that hold its term
DfMatchesForward(lexicon, forward_index) ==
    \A i \in DOMAIN lexicon :
        lexicon[i].df = DocsWithTerm(forward_index, lexicon[i].term_id)

LexiconTokens(lexicon) == { lexicon[i].token : i \in DOMAIN lexicon }

\* The distinct tokens of a document that the lexicon does not hold
NewTokens(player_data, lexicon) == Range(DocTokens(player_data)) \ LexiconTokens(lexicon)

\* The barrel files whose inverted_index holds the term_id
BarrelsHolding(barrels, term_id) ==
    { bn \in DOMAIN barrels : Str(term_id) \in DOMAIN barrels[bn].inverted_index }

ResultIds(result) == { result.results[i].doc_id : i \in DOMAIN result.results }

\* The documents of the calls of add_document that have returned since
\* search_engine was imported
AddedSinceImport ==
    { i \in DOMAIN IndexesBefore.forward_index :
        IndexesBefore.forward_index[i].player_id \notin DocIds(seForward) }

\* C1: within one process, a search for a token t of a document that
\* add_document has added since the import returns that document, when
\* top_k is at least the number of documents that hold t.
C1_SearchSeesAddedDocument ==
    (IsSearch(lastOp) /\ Len(normalize_and_tokenize(lastOp.query)) = 1) =>
        LET t == normalize_and_tokenize(lastOp.query)[1]
        IN  \A i \in AddedSinceImport :
                LET d == IndexesBefore.forward_index[i]
                IN  ( /\ InTokenToEntry(IndexesBefore.lexicon, t)
                      /\ token_to_entry(IndexesBefore.lexicon, t).term_id \in TermIdsOfEntry(d)
                      /\ lastOp.top_k >= token_to_entry(IndexesBefore.lexicon, t).df )
                    => ( /\ lastOp.result.kind = "list"
                         /\ d.player_id \in ResultIds(lastOp.result) )

\* C2: a step of add_document that returns an error leaves the lexicon,
\* max_term_id, the forward index, the routing table (in memory and on
\* disk) and every barrel file as they were.
C2_ErrorLeavesIndexUnchanged ==
    [][ IsAddError(lastOp') =>
            UNCHANGED << indexes, diskLexicon, diskForward, diskRouting, diskBarrels >> ]_vars

C2_Witness ==
    /\ IsAddError(lastOp)
    /\ lastOp.result.error \in { MissingMsg, EmptyMsg }
                                 \cup { DuplicateMsg(id) : id \in 1..MaxPlayerId }
    /\ Len(indexes.forward_index) > Len(InitCorpus)

\* The input lacks doc_id or name: the key is not in player_data
LacksField(player_data) ==
    ~HasKey(player_data, "player_id") \/ ~HasKey(player_data, "player_name")

\* C3: add_document returns MissingField exactly when the input lacks
\* doc_id or name, DuplicateDocument exactly when both are there and doc_id
\* is in the forward index, EmptyDocument exactly when both are there,
\* doc_id is new and name + body has no token, and succeeds otherwise.
C3_ErrorKinds ==
    [][ IsAdd(lastOp') =>
          LET pd      == lastOp'.player_data
              res     == lastOp'.result
              missing == LacksField(pd)
              dup     == ~missing /\ pd.player_id \in DocIds(IndexesBefore.forward_index)
              empty   == ~missing /\ ~dup /\ DocTokens(pd) = << >>
          IN  /\ (res.kind = "error" /\ res.error = MissingMsg)   <=> missing
              /\ ( /\ res.kind = "error"
                    /\ HasKey(pd, "player_id")
                    /\ res.error = DuplicateMsg(pd.player_id) ) <=> dup
              /\ (res.kind = "error" /\ res.error = EmptyMsg)     <=> empty
              /\ (res.kind = "success") <=> (~missing /\ ~dup /\ ~empty)
              /\ \A id \in 0..MaxPlayerId :
                     Cardinality({ MissingMsg, DuplicateMsg(id), EmptyMsg }) = 3 ]_vars

\* C4: a successful add_document of a document with exactly one token that
\* the lexicon does not hold appends exactly one lexicon entry (that token,
\* df = 1), adds exactly one routing entry (for the new term_id), and the new
\* term_id is in exactly one barrel, the one the routing table names.
C4_OneNewToken ==
    [][ ( /\ IsAddSuccess(lastOp')
          /\ Cardinality(NewTokens(lastOp'.player_data, IndexesBefore.lexicon)) = 1 ) =>
          LET n     == Len(IndexesBefore.lexicon)
              entry == indexes'.lexicon[n + 1]
          IN  /\ Len(indexes'.lexicon) = n + 1
              /\ diskLexicon' = indexes'.lexicon
              /\ { entry.token } = NewTokens(lastOp'.player_data, IndexesBefore.lexicon)
              /\ entry.df = 1
              /\ DOMAIN indexes'.term_to_barrel
                    = DOMAIN IndexesBefore.term_to_barrel \cup { Str(entry.term_id) }
              /\ Str(entry.term_id) \notin DOMAIN IndexesBefore.term_to_barrel
              /\ diskRouting' = indexes'.term_to_barrel
              /\ BarrelsHolding(FilesBefore.barrels, entry.term_id) = {}
              /\ BarrelsHolding(diskBarrels', entry.term_id)
                    = { diskRouting'[Str(entry.term_id)] } ]_vars

C4_Witness ==
    /\ IsAddSuccess(lastOp)
    /\ lastOp.result.new_tokens_added = 1
    /\ lastOp.result.unique_terms > 1

\* The df of a token in a lexicon, 0 when the lexicon does not hold it
DfOf(lexicon, token) ==
    IF InTokenToEntry(lexicon, token) THEN token_to_entry(lexicon, token).df ELSE 0

\* C5: df equals the number of forward index documents that hold the term,
\* in memory and on disk, after any sequence of add_document calls; every
\* successful add raises the df of each token of the document that was in
\* the lexicon by exactly one, whatever its tf, and leaves every other
\* token's df as it was.
C5_DfCountsDocuments ==
    /\ [](DfMatchesForward(indexes.lexicon, indexes.forward_index))
    /\ [](~adding.active => DfMatchesForward(diskLexicon, diskForward))
    /\ [][ IsAddSuccess(lastOp') =>
             \A i \in DOMAIN IndexesBefore.lexicon :
                 LET token == IndexesBefore.lexicon[i].token
                 IN  DfOf(indexes'.lexicon, token) =
                         IF token \in Range(DocTokens(lastOp'.player_data))
                         THEN IndexesBefore.lexicon[i].df + 1
                         ELSE IndexesBefore.lexicon[i].df ]_vars

\* A document was added in which a token the lexicon already held occurs twice
C5_Witness ==
    /\ IsAddSuccess(lastOp)
    /\ lastOp.result.total_terms > lastOp.result.unique_terms
    /\ \E order \in InitOrders :
         \E i \in DOMAIN InitLexicon(order) :
           /\ indexes.lexicon[i].token = InitLexicon(order)[i].token
           /\ indexes.lexicon[i].df > InitLexicon(order)[i].df
           /\ indexes.lexicon[i].token \in Range(DocTokens(lastOp.player_data))

\* C6: in the index the lexicon builder and then the forward index builder
\* produce from one corpus, every lexicon entry's df is the number of forward
\* index entries whose terms hold its term_id.
C6_BulkDfCountsDocuments ==
    (buildPc = "done" /\ corpus # << >>) => DfMatchesForward(diskLexicon, cwdForward)

\* The df a lexicon records for a term_id given as a barrel key
LexiconDfOfKey(lexicon, key) ==
    { lexicon[i].df : i \in { j \in DOMAIN lexicon : lexicon[j].term_id = ParseInt(key) } }

\* Every term of every barrel routes to that barrel and carries the lexicon's df
ShardConsistent(barrels, term_to_barrel, lexicon) ==
    \A bn \in DOMAIN barrels :
        \A key \in DOMAIN barrels[bn].inverted_index :
            /\ key \in DOMAIN term_to_barrel
            /\ term_to_barrel[key] = bn
            /\ LexiconDfOfKey(lexicon, key) = { barrels[bn].inverted_index[key].df }

\* C7: after any sequence of add_document calls, every term_id of every
\* barrel file routes to that barrel and its df in the barrel is the
\* lexicon's df, for the routing table and lexicon on disk and in memory.
C7_ShardConsistency ==
    ~adding.active =>
        /\ ShardConsistent(diskBarrels, diskRouting, diskLexicon)
        /\ ShardConsistent(diskBarrels, indexes.term_to_barrel, indexes.lexicon)

\* A barrel holds a term the initial index did not have next to one it had,
\* and the df of a term of the initial index has grown
C7_Witness ==
    /\ IsAddSuccess(lastOp)
    /\ \E order \in InitOrders, bn \in DOMAIN diskBarrels :
           /\ \E key \in DOMAIN diskBarrels[bn].inverted_index : key \notin DOMAIN InitRouting
           /\ \E key \in DOMAIN InitBarrels(order)[bn].inverted_index :
                  /\ diskBarrels[bn].inverted_index[key].token
                         = InitBarrels(order)[bn].inverted_index[key].token
                  /\ diskBarrels[bn].inverted_index[key].df
                         > InitBarrels(order)[bn].inverted_index[key].df

LexiconBijection(lexicon) ==
    \A i, j \in DOMAIN lexicon :
        i # j => (lexicon[i].token # lexicon[j].token /\ lexicon[i].term_id # lexicon[j].term_id)

\* C8: the lexicon stays a bijection between tokens and term_ids; a step
\* never changes the term_id of a token the lexicon holds, and each entry it
\* appends has the maximum term_id of the entries before it plus one.
C8_TermIdsStable ==
    /\ [](LexiconBijection(indexes.lexicon) /\ LexiconBijection(diskLexicon))
    /\ [][ LET old == indexes.lexicon
               new == indexes'.lexicon
           IN  /\ Len(new) >= Len(old)
               /\ \A i \in DOMAIN old :
                      new[i].token = old[i].token /\ new[i].term_id = old[i].term_id
               /\ \A i \in (Len(old) + 1)..Len(new) :
                      new[i].term_id = SetMax({ new[j].term_id : j \in 1..(i - 1) }) + 1 ]_vars

\* Two tokens entered the lexicon in one call
C8_Witness ==
    /\ IsAddSuccess(lastOp)
    /\ lastOp.result.new_tokens_added = 2
    /\ \E order \in InitOrders : Len(indexes.lexicon) = Len(InitLexicon(order)) + 2

\* The routing table at the moment of event i of a call: the table before
\* the call and the assignments the call has made before i
RECURSIVE RoutingAt(_, _, _)
RoutingAt(term_to_barrel, log, i) ==
    IF i <= 1 THEN term_to_barrel
    ELSE LET before == RoutingAt(term_to_barrel, log, i - 1)
             ev     == log[i - 1]
         IN  IF ev.op = "route" THEN DictSet(before, Str(ev.term_id), ev.barrel) ELSE before

\* C9: add_document routes a term_id t that has no routing entry to the
\* shard with index t mod K, K being one plus the maximum shard index among
\* the values of the routing table at that moment, and records the mapping
\* before it writes the shard.
C9_ShardAssignment ==
    [][ IsAddSuccess(lastOp') =>
          /\ \A token \in Range(DocTokens(lastOp'.player_data)) :
                 LET t == token_to_entry(indexes'.lexicon, token).term_id
                 IN  Str(t) \notin DOMAIN IndexesBefore.term_to_barrel =>
                         \E i \in DOMAIN oplog' : oplog'[i].op = "route" /\ oplog'[i].term_id = t
          /\ \A i \in DOMAIN oplog' :
                 oplog'[i].op = "route" =>
                     LET t    == oplog'[i].term_id
                         at   == RoutingAt(IndexesBefore.term_to_barrel, oplog', i)
                         K    == 1 + SetMax({ BarrelIndex(at[key]) : key \in DOMAIN at })
                     IN  /\ Str(t) \notin DOMAIN at
                         /\ BarrelIndex(oplog'[i].barrel) = t % K
                         /\ indexes'.term_to_barrel[Str(t)] = oplog'[i].barrel
                         /\ i < Len(oplog')
                         /\ oplog'[i + 1].op = "write"
                         /\ oplog'[i + 1].file = oplog'[i].barrel
                         /\ BarrelsHolding(FilesBefore.barrels, t) = {} ]_vars

\* A new term_id was routed to a shard other than shard 0
C9_Witness ==
    /\ IsAddSuccess(lastOp)
    /\ \E i \in DOMAIN oplog :
           /\ oplog[i].op = "route"
           /\ oplog[i].term_id % 2 = 1
           /\ BarrelIndex(oplog[i].barrel) = 1

\* The units within which two fixed point scores of a query can name floats
\* in the other order: BM25_ERROR per token of the query, for each of the two
ScoreTolerance(query) == 2 * BM25_ERROR * Len(normalize_and_tokenize(query))

\* C10: the list search returns is ordered by score descending (as far as
\* the fixed point scores tell the floats apart), two results of equal score
\* are in ascending doc_id order, and it has at most top_k entries.
C10_Ranking ==
    (IsSearch(lastOp) /\ lastOp.result.kind = "list") =>
        LET res == lastOp.result.results
        IN  /\ Len(res) <= lastOp.top_k
            /\ \A i, j \in DOMAIN res :
                   i < j => /\ res[i].score + ScoreTolerance(lastOp.query) >= res[j].score
                            /\ res[i].score = res[j].score => res[i].doc_id < res[j].doc_id


\* C12: every search call runs to completion and returns a result list; it
\* never raises while it accumulates the scores of the postings of a shard.
C12_ScorerNeverFails ==
    (IsSearch(lastOp) /\ ~adding.active) => lastOp.result.kind = "list"

\* Every cached shard is the shard's file on disk
CacheMatchesDisk(cache, barrels) ==
    \A i \in DOMAIN cache :
        /\ cache[i].k \in DOMAIN barrels
        /\ cache[i].v = barrels[cache[i].k]

\* C13: whenever search or add_document has returned, every shard the barrel
\* cache holds is identical to that shard's file on disk.
C13_CacheMatchesDisk ==
    ((IsSearch(lastOp) \/ IsAdd(lastOp)) /\ ~adding.active /\ ~searching.active)
        => CacheMatchesDisk(barrel_cache, diskBarrels)

\* The tokens the analyzer produced in the last call: those of the document
\* of a successful add_document, those of the query of a search
ProducedTokens ==
    IF IsAddSuccess(lastOp) THEN Range(DocTokens(lastOp.player_data))
    ELSE IF IsSearch(lastOp) THEN Range(normalize_and_tokenize(lastOp.query))
    ELSE {}

\* C18: the analyzer is idempotent on tokens: normalize_and_tokenize of a
\* token that normalize_and_tokenize produced is the list of that token alone.
C18_AnalyzerIdempotent ==
    \A t \in ProducedTokens : normalize_and_tokenize(t) = << t >>

\* No token of the lexicon is short, a stop word, or holds a non-letter
LexiconTokensClean(lexicon) ==
    \A i \in DOMAIN lexicon :
        LET token == lexicon[i].token
        IN  /\ Len(token) > 2
            /\ token \notin COMPREHENSIVE_STOP_WORDS
            /\ \A j \in DOMAIN token : IsAZ(token[j])

\* C19: after any sequence of add_document calls no lexicon entry's token
\* has length <= 2, is a stop word, or contains a non-letter character, in
\* memory and on disk (looked at when no call is under way).
C19_LexiconTokensClean ==
    ~adding.active =>
        LexiconTokensClean(indexes.lexicon) /\ LexiconTokensClean(diskLexicon)

\* C20: the bulk build and the query path use the same analyzer: the stop
\* word sets are equal, and for the text of every document of the corpus the
\* token sequence the lexicon builder takes and the token sequence the
\* forward index builder takes are the sequence normalize_and_tokenize gives.
C20_SameAnalyzer ==
    (buildPc = "done" /\ corpus # << >>) =>
        /\ BUILD_STOP_WORDS = COMPREHENSIVE_STOP_WORDS
        /\ \A i \in DOMAIN corpus :
               LET text == corpus[i].detailed_content
               IN  /\ LexiconBuildTokens(text) = normalize_and_tokenize(text)
                   /\ ForwardBuildTokens(text) = normalize_and_tokenize(text)

\* The shards search(query) asks load_barrel for that were not cached when
\* the call was made and whose file is not on disk
AbsentForSearch(query) ==
    { bn \in RequiredBarrels(tokens_to_term_ids(normalize_and_tokenize(query), seLexicon),
                             seRouting) :
        ~ODHas(CacheBefore, bn) /\ bn \notin DOMAIN diskBarrels }

\* The shards the routing table named for the tokens of the document when
\* the call was made and whose file was not on disk
AbsentForAdd(player_data) ==
    LET idx == IndexesBefore
    IN  { bn \in { idx.term_to_barrel[key] : key \in DOMAIN idx.term_to_barrel } :
            /\ bn \notin DOMAIN FilesBefore.barrels
            /\ \E token \in Range(DocTokens(player_data)) :
                   /\ InTokenToEntry(idx.lexicon, token)
                   /\ Str(token_to_entry(idx.lexicon, token).term_id)
                          \in DOMAIN idx.term_to_barrel
                   /\ idx.term_to_barrel[Str(token_to_entry(idx.lexicon, token).term_id)]
                          = bn }

\* C15: a search or add_document that needs a shard the routing table names
\* and whose file is absent does not complete successfully: search returns
\* no result list and add_document reports no success.
C15_AbsentShardIsFatal ==
    [][ /\ (IsSearch(lastOp') /\ lastOp'.result.kind = "list")
              => AbsentForSearch(lastOp'.query) = {}
        /\ IsAddSuccess(lastOp') => AbsentForAdd(lastOp'.player_data) = {} ]_vars

\* C11: a search whose query has no analyzer token in the lexicon (stop
\* words, words of length <= 2, unknown words) returns the empty list and
\* loads no shard: the barrel cache is as it was.
C11_UnknownTermsGiveEmpty ==
    [][ ( /\ IsSearch(lastOp')
          /\ \A t \in Range(normalize_and_tokenize(lastOp'.query)) :
                 ~HasTokenId(seLexicon, t) ) =>
            /\ lastOp'.result = [ kind |-> "list", results |-> << >> ]
            /\ barrel_cache' = barrel_cache ]_vars

\* A stop word or two-letter query was answered with the cache full
C11_Witness ==
    /\ IsSearch(lastOp)
    /\ lastOp.query \in { bThe, bLi }
    /\ lastOp.result = [ kind |-> "list", results |-> << >> ]
    /\ Len(barrel_cache) = MAX_CACHED_BARRELS

\* C14: the barrel cache never holds more than MAX_CACHED_BARRELS shards,
\* also after a query that requires more shards than that.
C14_CacheBounded ==
    Len(barrel_cache) <= MAX_CACHED_BARRELS

\* A query that requires MAX_CACHED_BARRELS + 1 shards has returned its
\* results and the cache is full
C14_Witness ==
    /\ IsSearch(lastOp)
    /\ Cardinality(RequiredBarrels(
           tokens_to_term_ids(normalize_and_tokenize(lastOp.query), seLexicon), seRouting))
         > MAX_CACHED_BARRELS
    /\ lastOp.result.kind = "list"
    /\ lastOp.result.results # << >>
    /\ Len(barrel_cache) = MAX_CACHED_BARRELS

\* The tokens of a sequence, each once, in the order of their first occurrence
RECURSIVE DistinctTokens(_, _)
DistinctTokens(tokens, seen) ==
    IF tokens = << >> THEN seen
    ELSE IF Head(tokens) \in Range(seen) THEN DistinctTokens(Tail(tokens), seen)
    ELSE DistinctTokens(Tail(tokens), Append(seen, Head(tokens)))

\* The BM25 contribution of one token to one document: that of the token's
\* posting for the document in the shard the routing table names, 0 without
TermContribution(token, doc_id) ==
    IF ~HasTokenId(seLexicon, token) THEN 0
    ELSE LET tid == token_to_id(seLexicon, token)
             key == Str(tid)
         IN  IF key \notin DOMAIN seRouting \/ seRouting[key] \notin DOMAIN diskBarrels
             THEN 0
             ELSE LET inv == diskBarrels[seRouting[key]].inverted_index
                  IN  IF key \notin DOMAIN inv \/ ~ODHas(inv[key].postings, Str(doc_id))
                      THEN 0
                      ELSE bm25_score(ODGet(inv[key].postings, Str(doc_id)).tf,
                                      term_document_frequency(seLexicon, tid),
                                      doc_by_id(seForward, doc_id).total_terms,
                                      DocCount(seForward), TotalTermsSum(seForward))

\* The score of a document when every distinct token of the query counts
\* once, for BM25 and for the name-token bonus
OncePerTermScore(query, doc_id) ==
    LET tokens == DistinctTokens(normalize_and_tokenize(query), << >>)
    IN  SumSeq([ i \in DOMAIN tokens |-> TermContribution(tokens[i], doc_id) ])
        + Boost(query, tokens, doc_id, seForward)

\* C16: the score of every result is the sum over the distinct tokens of the
\* query of the token's BM25 contribution, plus the boosts with the
\* name-token bonus counted once per distinct token.
C16_OncePerTerm ==
    (IsSearch(lastOp) /\ lastOp.result.kind = "list") =>
        \A i \in DOMAIN lastOp.result.results :
            lastOp.result.results[i].score
                = OncePerTermScore(lastOp.query, lastOp.result.results[i].doc_id)

\* The two-letter words of a name
TwoLetterWords(player_name) ==
    { w \in Range(FindRuns(Lower(player_name))) : Len(w) = 2 }

\* C17: a search whose query is a two-letter word of the name of a document
\* of the index returns that document, when top_k admits every document whose
\* name holds the word.
C17_TwoLetterSurnameMatches ==
    IsSearch(lastOp) =>
        \A i \in DOMAIN seForward :
            ( /\ Lower(lastOp.query) \in TwoLetterWords(seForward[i].player_name)
              /\ lastOp.top_k >= Cardinality({ j \in DOMAIN seForward :
                     Lower(lastOp.query) \in TwoLetterWords(seForward[j].player_name) }) )
            => ( /\ lastOp.result.kind = "list"
                 /\ seForward[i].player_id \in ResultIds(lastOp.result) )

\* The Forward Index Entry shape: terms is a list of {term_id, tf} records,
\* unique_terms its length, total_terms the sum of its tf values
ForwardEntryShape(entry) ==
    /\ entry.terms.kind = "list"
    /\ \A i \in DOMAIN entry.terms.items :
           { "term_id", "tf" } \subseteq DOMAIN entry.terms.items[i]
    /\ entry.unique_terms = Len(entry.terms.items)
    /\ entry.total_terms
         = SumSeq([ i \in DOMAIN entry.terms.items |-> entry.terms.items[i].tf ])

\* C23: every forward index entry, bulk-built or appended by add_document,
\* in memory and on disk, has the Forward Index Entry shape (looked at when
\* no add_document call is under way).
C23_ForwardEntryShape ==
    ~adding.active =>
        /\ \A i \in DOMAIN indexes.forward_index : ForwardEntryShape(indexes.forward_index[i])
        /\ \A i \in DOMAIN diskForward : ForwardEntryShape(diskForward[i])

\* The maximum shard index among the values of a routing table
MaxShardIndex(term_to_barrel) ==
    SetMax({ BarrelIndex(term_to_barrel[key]) : key \in DOMAIN term_to_barrel })

\* C26: after any sequence of add_document calls the maximum shard index of
\* the routing table, in memory and on disk, is that of the initial routing
\* table, no barrel file lies beyond it, and every assignment a call makes is
\* to a shard index below K.
C26_ShardRangeStable ==
    /\ MaxShardIndex(indexes.term_to_barrel) = MaxShardIndex(InitRouting)
    /\ MaxShardIndex(diskRouting) = MaxShardIndex(InitRouting)
    /\ \A bn \in DOMAIN diskBarrels : BarrelIndex(bn) <= MaxShardIndex(InitRouting)
    /\ \A i \in DOMAIN oplog :
           oplog[i].op = "route" => BarrelIndex(oplog[i].barrel) <= MaxShardIndex(InitRouting)

\* Two new term_ids have been routed, one of them by the last call to the
\* highest shard
C26_Witness ==
    /\ IsAddSuccess(lastOp)
    /\ Cardinality(DOMAIN indexes.term_to_barrel) >= Cardinality(DOMAIN InitRouting) + 2
    /\ \E i \in DOMAIN oplog :
           /\ oplog[i].op = "route"
           /\ BarrelIndex(oplog[i].barrel) = MaxShardIndex(InitRouting)

\* The barrels the routing table names for the tokens of a document
RoutedBarrels(player_data, lexicon, term_to_barrel) ==
    { term_to_barrel[Str(token_to_entry(lexicon, token).term_id)] :
          token \in Range(DocTokens(player_data)) }

\* The term_id strings of the tokens of a document
TermIdsOf(player_data, lexicon) ==
    { Str(token_to_entry(lexicon, token).term_id) : token \in Range(DocTokens(player_data)) }

\* Every posting of a posting list under a doc_id other than doc_id_str is in
\* the later posting list, in the same place
OtherPostingsKept(old, new, doc_id_str) ==
    /\ Len(new) >= Len(old)
    /\ \A i \in DOMAIN old : old[i].k # doc_id_str => new[i] = old[i]

\* C27: a successful add_document of d keeps every routing entry, every
\* forward index entry and every lexicon entry's token and term_id, changes
\* a df only by raising that of d's tokens, keeps every posting of every
\* other doc_id in every barrel, and writes no barrel other than those the
\* routing table names for d's tokens.
C27_AddFrame ==
    [][ IsAddSuccess(lastOp') =>
          LET d       == lastOp'.player_data
              id      == Str(d.player_id)
              tokens  == Range(DocTokens(d))
              written == RoutedBarrels(d, indexes'.lexicon, indexes'.term_to_barrel)
              tids    == TermIdsOf(d, indexes'.lexicon)
          IN  /\ \A t \in DOMAIN IndexesBefore.term_to_barrel :
                     /\ t \in DOMAIN indexes'.term_to_barrel
                     /\ indexes'.term_to_barrel[t] = IndexesBefore.term_to_barrel[t]
              /\ \A t \in DOMAIN FilesBefore.routing :
                     t \in DOMAIN diskRouting' /\ diskRouting'[t] = FilesBefore.routing[t]
              /\ SubSeq(indexes'.forward_index, 1, Len(IndexesBefore.forward_index))
                     = IndexesBefore.forward_index
              /\ SubSeq(diskForward', 1, Len(FilesBefore.forward)) = FilesBefore.forward
              /\ \A i \in DOMAIN IndexesBefore.lexicon :
                     /\ indexes'.lexicon[i].token = IndexesBefore.lexicon[i].token
                     /\ indexes'.lexicon[i].term_id = IndexesBefore.lexicon[i].term_id
                     /\ indexes'.lexicon[i].df >= IndexesBefore.lexicon[i].df
                     /\ IndexesBefore.lexicon[i].token \notin tokens
                            => indexes'.lexicon[i] = IndexesBefore.lexicon[i]
              /\ SubSeq(diskLexicon', 1, Len(IndexesBefore.lexicon))
                     = SubSeq(indexes'.lexicon, 1, Len(IndexesBefore.lexicon))
              /\ { oplog'[i].file : i \in { j \in DOMAIN oplog' :
                       oplog'[j].op = "write" /\ oplog'[j].file \in DOMAIN diskBarrels' } }
                     = written
              /\ \A bn \in DOMAIN FilesBefore.barrels :
                     /\ bn \in DOMAIN diskBarrels'
                     /\ bn \notin written => diskBarrels'[bn] = FilesBefore.barrels[bn]
                     /\ \A t \in DOMAIN FilesBefore.barrels[bn].inverted_index :
                            LET old == FilesBefore.barrels[bn].inverted_index[t]
                                new == diskBarrels'[bn].inverted_index[t]
                            IN  /\ t \in DOMAIN diskBarrels'[bn].inverted_index
                                /\ t \notin tids => new = old
                                /\ new.token = old.token
                                /\ new.df >= old.df
                                /\ OtherPostingsKept(old.postings, new.postings, id) ]_vars

\* A document was added to a term that held another document's posting, in a
\* barrel that holds a term the document does not have
C27_Witness ==
    /\ IsAddSuccess(lastOp)
    /\ \E bn \in DOMAIN diskBarrels :
           /\ \E t \in DOMAIN diskBarrels[bn].inverted_index :
                  LET postings == diskBarrels[bn].inverted_index[t].postings
                  IN  /\ Len(postings) >= 2
                      /\ postings[Len(postings)].k = Str(lastOp.player_data.player_id)
           /\ \E t \in DOMAIN diskBarrels[bn].inverted_index :
                  t \notin TermIdsOf(lastOp.player_data, indexes.lexicon)

\* The shards a query requires in the search process
RequiredOf(query) ==
    RequiredBarrels(tokens_to_term_ids(normalize_and_tokenize(query), seLexicon), seRouting)

\* The keys of the barrel cache, in insertion order
CacheKeys(cache) == [ i \in DOMAIN cache |-> cache[i].k ]

\* C25: a search that calls load_barrel once leaves the cache as it was on a
\* hit, appends the shard without evicting on a miss below capacity, and on
\* a miss at capacity drops exactly the entry inserted earliest and appends
\* the shard; a search of any number of shards drops entries only from the
\* front of the insertion order, only to end at capacity, and a search whose
\* shards are all resident changes nothing.
C25_FifoEviction ==
    [][ IsSearch(lastOp') =>
          LET required == RequiredOf(lastOp'.query)
              n        == Len(CacheBefore)
              resident == Range(CacheKeys(CacheBefore))
          IN  /\ required \subseteq resident => barrel_cache' = CacheBefore
              /\ \A bn \in required :
                     (required = { bn } /\ bn \notin resident /\ bn \in DOMAIN diskBarrels) =>
                         IF n >= MAX_CACHED_BARRELS
                         THEN barrel_cache' = Append(Tail(CacheBefore),
                                                     [ k |-> bn, v |-> diskBarrels[bn] ])
                         ELSE barrel_cache' = Append(CacheBefore,
                                                     [ k |-> bn, v |-> diskBarrels[bn] ])
              /\ \E dropped \in 0..n :
                     /\ SubSeq(barrel_cache', 1, n - dropped)
                            = SubSeq(CacheBefore, dropped + 1, n)
                     /\ \A i \in (n - dropped + 1)..Len(barrel_cache') :
                            barrel_cache'[i].k \in required
                     /\ dropped > 0 => Len(barrel_cache') = MAX_CACHED_BARRELS ]_vars

\* The order in which the process loads the shards of ManyShardQuery
ManyShardOrder ==
    SetOrder(RequiredAdds(tokens_to_term_ids(normalize_and_tokenize(ManyShardQuery), seLexicon),
                          seRouting), seHashSeed)

\* After the search of MAX_CACHED_BARRELS + 1 shards had dropped the shard it
\* loaded first, a one-shard search for that shard missed on the full cache:
\* the shard is the newest entry, the second shard of the long search, the
\* oldest before, is gone, and its third is next to go
C25_Witness ==
    /\ IsSearch(lastOp)
    /\ Len(ManyShardOrder) = MAX_CACHED_BARRELS + 1
    /\ RequiredOf(lastOp.query) = { ManyShardOrder[1] }
    /\ CacheKeys(barrel_cache)
         = SubSeq(ManyShardOrder, 3, MAX_CACHED_BARRELS + 1) \o << ManyShardOrder[1] >>

\* A one-shard search hit on a full cache: its shard is resident and not the
\* newest entry
C25_HitWitness ==
    /\ IsSearch(lastOp)
    /\ Len(barrel_cache) = MAX_CACHED_BARRELS
    /\ \E i \in 1..(MAX_CACHED_BARRELS - 1) : RequiredOf(lastOp.query) = { barrel_cache[i].k }

\* The BM25 part of the score of a document for a query
Bm25Part(query, doc_id) ==
    LET tokens == DistinctTokens(normalize_and_tokenize(query), << >>)
    IN  SumSeq([ i \in DOMAIN tokens |-> TermContribution(tokens[i], doc_id) ])

\* The name bonuses of a document for a query
NameBonuses(query, doc_id) ==
    LET meta       == build_name_metadata(doc_by_id(seForward, doc_id).player_name)
        query_name == JoinSpace(normalize_name_tokens(query))
    IN    NAME_TOKEN_WEIGHT * MatchCount(normalize_and_tokenize(query), meta)
        + (IF ExactName(query_name, meta) THEN EXACT_NAME_BONUS ELSE 0)
        + (IF PrefixName(query_name, meta) THEN NAME_PREFIX_BONUS ELSE 0)
        + (IF RawSubstring(Strip(Lower(query)), meta) THEN RAW_SUBSTRING_BONUS ELSE 0)

\* The valuation boost and the body-length boost of a document
MetadataBoosts(doc_id) ==
      (IF doc_id \in DOMAIN player_market_value /\ player_market_value[doc_id] # 0
       THEN (MARKET_VALUE_WEIGHT \div SCALE)
            * ((SCALE * LN[1 + player_market_value[doc_id]]) \div LogMax(player_market_value))
       ELSE 0)
    + (IF doc_id \in DOMAIN profile_length_by_id /\ profile_length_by_id[doc_id] # 0
       THEN (PROFILE_LENGTH_WEIGHT \div SCALE)
            * ((SCALE * LN[1 + profile_length_by_id[doc_id]]) \div LogMax(profile_length_by_id))
       ELSE 0)

\* Some name condition fired for the document
NameFired(query, doc_id) ==
    HasNameMatch(query, normalize_and_tokenize(query),
                 build_name_metadata(doc_by_id(seForward, doc_id).player_name))

\* C24: a result for which no name condition fired has its BM25 score less
\* the penalty and no valuation or body-length boost; a result for which a
\* name condition fired has its BM25 score, its name bonuses and both
\* metadata boosts, and no penalty.
C24_NameMatchGatesBoosts ==
    (IsSearch(lastOp) /\ lastOp.result.kind = "list") =>
        \A i \in DOMAIN lastOp.result.results :
            LET doc_id == lastOp.result.results[i].doc_id
                score  == lastOp.result.results[i].score
                query  == lastOp.query
            IN  /\ ~NameFired(query, doc_id) =>
                       /\ normalize_and_tokenize(query) # << >>
                       /\ score = Bm25Part(query, doc_id) - NON_NAME_MATCH_PENALTY
                /\ NameFired(query, doc_id) =>
                       score = Bm25Part(query, doc_id) + NameBonuses(query, doc_id)
                                 + MetadataBoosts(doc_id)

\* The results hold a document with a market value and a profile length for
\* which no name condition fired
C24_Witness ==
    /\ IsSearch(lastOp)
    /\ lastOp.result.kind = "list"
    /\ \E i \in DOMAIN lastOp.result.results :
           LET doc_id == lastOp.result.results[i].doc_id
           IN  /\ ~NameFired(lastOp.query, doc_id)
               /\ MetadataBoosts(doc_id) > 0

\* The results hold a document for which a name condition fired, with its
\* metadata boosts
C24_FiredWitness ==
    /\ IsSearch(lastOp)
    /\ lastOp.result.kind = "list"
    /\ \E i \in DOMAIN lastOp.result.results :
           LET doc_id == lastOp.result.results[i].doc_id
           IN  /\ NameFired(lastOp.query, doc_id)
               /\ MetadataBoosts(doc_id) > 0

\* The (token, df) pairs of a lexicon
TokenDfs(lexicon) == { << lexicon[i].token, lexicon[i].df >> : i \in DOMAIN lexicon }

\* The tokens whose entries carry the term_id
TokensOfTermId(lexicon, term_id) ==
    { lexicon[i].token : i \in { j \in DOMAIN lexicon : lexicon[j].term_id = term_id } }

\* The (token, doc_id, tf) postings a forward index file lists, term_ids
\* replaced by their tokens
PostingsOfForward(lexicon, forward) ==
    UNION { LET entry == forward[i]
                terms == entry.terms
            IN  IF terms.kind = "list"
                THEN UNION { { << token, entry.player_id, terms.items[j].tf >> :
                                   token \in TokensOfTermId(lexicon, terms.items[j].term_id) } :
                             j \in DOMAIN terms.items }
                ELSE UNION { { << token, entry.player_id, terms.map[key].tf >> :
                                   token \in TokensOfTermId(lexicon, ParseInt(key)) } :
                             key \in DOMAIN terms.map }
          : i \in DOMAIN forward }

\* The player_data of a profile of the corpus
AsPlayerData(doc) ==
    [ player_id        |-> doc.player_id,
      player_name      |-> doc.player_name,
      detailed_content |-> doc.detailed_content ]

\* The index files of the bulk build of the first profile of a corpus, every
\* term_id in shard 0; the shard files are left to add_document
SeedFiles(docs) ==
    LET first   == << docs[1] >>
        order   == CHOOSE o \in InsertionOrders(first) : TRUE
        lexicon == BuildLexicon(first, order)
    IN  [ lexicon |-> lexicon,
          forward |-> BuildForwardIndex(first, lexicon),
          routing |-> [ key \in { Str(lexicon[i].term_id) : i \in DOMAIN lexicon }
                        |-> BarrelName(0) ],
          barrels |-> EmptyDict ]

\* The index files after the bulk build of the first profile and
\* add_document of the others
IncrementalFiles(docs) ==
    LET seed == SeedFiles(docs)
    IN  AddAll([ i \in 1..(Len(docs) - 1) |-> AsPlayerData(docs[i + 1]) ],
               load_indexes(seed.lexicon, seed.forward, seed.routing), seed)

\* C21: the bulk build of a corpus and the build that adds its profiles one
\* at a time give the same tokens with the same df and the same
\* (token, doc_id, tf) postings.
C21_IncrementalEquivalence ==
    (buildPc = "done" /\ corpus # << >> /\ SeedFiles(corpus).lexicon # << >>) =>
        LET inc == IncrementalFiles(corpus)
        IN  /\ TokenDfs(inc.lexicon) = TokenDfs(diskLexicon)
            /\ PostingsOfForward(inc.lexicon, inc.forward)
                   = PostingsOfForward(diskLexicon, cwdForward)

\* The last call of add_document raised
IsAddRaise(op) == op.op = "add" /\ op.result.kind = "raise"

\* The index files agree on a document: it is in the forward index once,
\* every df is the number of documents that hold the term, every term of
\* every barrel routes to that barrel with the lexicon's df, and every token
\* of the document has its posting in the barrel the routing table names
ConsistentFor(player_data, lexicon, forward, routing, barrels) ==
    /\ Cardinality({ i \in DOMAIN forward : forward[i].player_id = player_data.player_id }) = 1
    /\ DfMatchesForward(lexicon, forward)
    /\ ShardConsistent(barrels, routing, lexicon)
    /\ \A token \in Range(DocTokens(player_data)) :
           /\ InTokenToEntry(lexicon, token)
           /\ LET key == Str(token_to_entry(lexicon, token).term_id)
              IN  /\ key \in DOMAIN routing
                  /\ routing[key] \in DOMAIN barrels
                  /\ key \in DOMAIN barrels[routing[key]].inverted_index
                  /\ ODHas(barrels[routing[key]].inverted_index[key].postings,
                           Str(player_data.player_id))

\* The call that raised had written some barrel file and had not yet written
\* the lexicon file (nor, then, the forward index or the routing table)
FailedPartway ==
    /\ IsAddRaise(lastOp)
    /\ \E i \in DOMAIN oplog : oplog[i].op = "write"
    /\ \A i \in DOMAIN oplog : oplog[i].op = "write" => oplog[i].file # LexiconFile

\* C22: when add_document of d has raised after some barrel files were
\* written and before the lexicon, forward index and routing files were, the
\* next call of add_document(d) succeeds and leaves the index files
\* consistent.
C22_RetryRepairs ==
    [][ ( /\ FailedPartway
          /\ lastOp'.op = "add"
          /\ lastOp'.player_data = lastOp.player_data ) =>
          /\ IsAddSuccess(lastOp')
          /\ ConsistentFor(lastOp.player_data, diskLexicon', diskForward', diskRouting',
                           diskBarrels') ]_vars
====
